---- MODULE Spec2Model ----
(***************************************************************************)
(* A model of the rocketcan signal layout engine, signal codec and message *)
(* codec (signal_layout.rs, can_encoder.rs, can_decoder.rs).               *)
(*                                                                         *)
(* Machine integers are bit vectors, written as the set of the positions   *)
(* of their 1 bits: a u8 is a subset of 0..7, a u64 or an i64 a subset of  *)
(* 0..63 (an i64 in two's complement, bit 63 its sign).  Shifts, masks,    *)
(* and/or/not are the set operations the hardware performs.                *)
(***************************************************************************)
EXTENDS Integers, Sequences, FiniteSets, TLC

VARIABLES
    op,        \* the operation performed last
    signal,    \* the can_dbc::Signal the layout was built from
    layout,    \* the SignalLayout: [segments, signal_size]
    data,      \* the frame payload, CanFrame.data: [u8; 64]
    before,    \* the payload as it was before the last pack
    raw,       \* the u64 handed to pack last
    result,    \* the u64 returned last (by extract, by compute_raw_value)
    other,     \* a second signal packed into the same payload
    physical,  \* the f64 physical value handed over or returned last
    message,   \* the can_dbc::Message: [message_size, signals]
    message_id,\* the id handed to encode_message
    pairs,     \* the (signal name, physical value) pairs handed to encode_message
    frame,     \* the CanFrame encode_message returned
    decoded,   \* DecodedCanMessage.values, as decode_message returned them
    outcome,   \* "Ok" or the error a fallible operation returned
    error,     \* the signal name the error returned last carries
    builder,   \* the CanFrameBuilder the caller holds, if any
    line,      \* the text handed to a line parser
    written,   \* the text frame_to_candump_line returned
    origin,    \* the frame handed to frame_to_candump_line
    input,     \* CanLogParser: the lines of the reader not read yet
    consumed,  \* CanLogParser: the lines read from the reader so far
    yielded,   \* the frames the calls of CanLogParser::next returned so far
    received,  \* the frames a loop over the reader got before the first None
    ended,     \* CanLogParser::next has returned None
    format,    \* CanLogParser: [format, ascii_base]
    writer,    \* CandumpWriter: [buf, inner], the BufWriter and its sink
    submitted  \* the frames CandumpWriter::write has taken so far

vars == <<op, signal, layout, data, before, raw, result, other, physical,
          message, message_id, pairs, frame, decoded, outcome,
          error, builder, line, written, origin, input, consumed, yielded,
          received, ended, format, writer, submitted>>

\* the variables of the frame builder
builderVars == <<error, builder>>

\* the variables of the log parsers, the log writer and the log reader
readerVars == <<input, consumed, yielded, received, ended, format>>

writerVars == <<writer, submitted>>

logVars == <<line, written, origin, readerVars, writerVars>>

\* the variables of the message codec
messageVars == <<message, message_id, pairs, frame, decoded, outcome>>

----------------------------------------------------------------------------
(* Program constants *)

\* canlog_reader.rs: const DEFAULT_FRAME_PAYLOAD_LEN: usize = 64
DEFAULT_FRAME_PAYLOAD_LEN == 64

\* the width of u64 / i64, the type of the raw value
WordBits == 64

\* the width of u8, the type of a payload byte
ByteBits == 8

\* the bits of the significand of an f64
MantissaBits == 53

(* Bounds of the model *)

\* the number of sample payload buffers the inputs are drawn from
NumBufPatterns == 1

\* the number of sample raw bit patterns the inputs are drawn from
NumRawPatterns == 1

\* the number of sample signals a second signal is drawn from
NumOtherSignals == 2

\* the sample physical values are the integers of -MaxPhysical .. MaxPhysical
\* and some powers of two
MaxPhysical == 9

----------------------------------------------------------------------------
(* Bit vectors *)

Min(a, b) == IF a < b THEN a ELSE b

U8 == 0 .. (ByteBits - 1)
U64 == 0 .. (WordBits - 1)

\* x << n on a vector of `bits` bits (n < bits): the bits shifted out are lost
Shl(x, n, bits) == {i + n : i \in {j \in x : j + n < bits}}

\* x >> n (logical)
Shr(x, n) == {i - n : i \in {j \in x : j >= n}}

\* ((1u16 << num_bits) - 1) as u8
Mask(num_bits) == {i \in U8 : i < num_bits}

\* `x as u8` of a u64: the low 8 bits
AsU8(x) == x \cap U8

\* `!x` on a u8
NotU8(x) == U8 \ x

ZeroData == [b \in 0 .. (DEFAULT_FRAME_PAYLOAD_LEN - 1) |-> {}]

----------------------------------------------------------------------------
(* signal_layout.rs *)

BitSpan(byte_index, bit_offset, num_bits, value_shift) ==
    [byte_index |-> byte_index, bit_offset |-> bit_offset,
     num_bits |-> num_bits, value_shift |-> value_shift]

\* a BigEndian loop that takes value_shift before the bits of the span are
\* taken off remaining
RECURSIVE BigEndianSpansShiftFirst(_, _, _)
BigEndianSpansShiftFirst(byte_index, bit_index, remaining) ==
    IF remaining > 0
    THEN LET num_bits == Min(bit_index + 1, remaining)
             bit_offset == bit_index + 1 - num_bits
             left == remaining - num_bits
         IN  <<BitSpan(byte_index, bit_offset, num_bits, remaining % 256)>>
             \o BigEndianSpansShiftFirst(byte_index + 1, 7, left)
    ELSE <<>>

\* a BigEndian loop that takes the start bit for the lowest bit of the
\* first span
RECURSIVE BigEndianSpansFromLow(_, _, _)
BigEndianSpansFromLow(byte_index, bit_index, remaining) ==
    IF remaining > 0
    THEN LET num_bits == Min(8 - bit_index, remaining)
             left == remaining - num_bits
         IN  <<BitSpan(byte_index, bit_index, num_bits, left % 256)>>
             \o BigEndianSpansFromLow(byte_index + 1, 0, left)
    ELSE <<>>

\* the BigEndian loop of from_spec; `remaining as u8` is remaining % 256
RECURSIVE BigEndianSpans(_, _, _)
BigEndianSpans(byte_index, bit_index, remaining) ==
    IF remaining > 0
    THEN LET num_bits == Min(bit_index + 1, remaining)
             bit_offset == bit_index + 1 - num_bits
             left == remaining - num_bits
         IN  <<BitSpan(byte_index, bit_offset, num_bits, left % 256)>>
             \o BigEndianSpans(byte_index + 1, 7, left)
    ELSE <<>>

\* a bug of the LittleEndian loop: the first span ignores the bits of its byte
\* that lie below the start bit
RECURSIVE LittleEndianSpansWholeBytes(_, _, _, _)
LittleEndianSpansWholeBytes(byte_index, bit_index, remaining, value_shift) ==
    IF remaining > 0
    THEN LET num_bits == Min(8, remaining)
         IN  <<BitSpan(byte_index, bit_index, num_bits, value_shift % 256)>>
             \o LittleEndianSpansWholeBytes(byte_index + 1, 0, remaining - num_bits,
                                            value_shift + num_bits)
    ELSE <<>>

\* the LittleEndian loop of from_spec
RECURSIVE LittleEndianSpans(_, _, _, _)
LittleEndianSpans(byte_index, bit_index, remaining, value_shift) ==
    IF remaining > 0
    THEN LET num_bits == Min(8 - bit_index, remaining)
         IN  <<BitSpan(byte_index, bit_index, num_bits, value_shift % 256)>>
             \o LittleEndianSpans(byte_index + 1, 0, remaining - num_bits,
                                  value_shift + num_bits)
    ELSE <<>>

\* SignalLayout::from_spec
from_spec(spec) ==
    LET byte_index == spec.start_bit \div 8
        bit_index == spec.start_bit % 8
        remaining == spec.signal_size
    IN  [segments |->
             IF spec.byte_order = "BigEndian"
             THEN BigEndianSpans(byte_index, bit_index, remaining)
             ELSE LittleEndianSpans(byte_index, bit_index, remaining, 0),
         signal_size |-> spec.signal_size]

\* a bug of extract: the byte is not shifted down to the span
ExtractSpanNoOffset(span, d) ==
    LET mask == Mask(span.num_bits)
        bits == d[span.byte_index] \cap mask
    IN  Shl(bits, span.value_shift, WordBits)

\* one iteration of the loop of extract: the bits one span contributes
ExtractSpan(span, d) ==
    LET mask == Mask(span.num_bits)
        bits == Shr(d[span.byte_index], span.bit_offset) \cap mask
    IN  Shl(bits, span.value_shift, WordBits)

\* SignalLayout::extract
extract(l, d) ==
    UNION {ExtractSpan(l.segments[i], d) : i \in 1 .. Len(l.segments)}

\* a bug of pack: every span takes the low bits of the raw value
PackSpanNoShift(span, byte, r) ==
    LET mask == Mask(span.num_bits)
        bits == AsU8(r) \cap mask
        cleared == byte \cap NotU8(Shl(mask, span.bit_offset, ByteBits))
    IN  cleared \cup Shl(bits, span.bit_offset, ByteBits)

\* a bug of pack: the bits of the span are not cleared before the or
PackSpanNoClear(span, byte, r) ==
    LET mask == Mask(span.num_bits)
        bits == AsU8(Shr(r, span.value_shift)) \cap mask
    IN  byte \cup Shl(bits, span.bit_offset, ByteBits)

\* one iteration of the loop of pack: the byte a span leaves behind
PackSpan(span, byte, r) ==
    LET mask == Mask(span.num_bits)
        bits == AsU8(Shr(r, span.value_shift)) \cap mask
        cleared == byte \cap NotU8(Shl(mask, span.bit_offset, ByteBits))
    IN  cleared \cup Shl(bits, span.bit_offset, ByteBits)

\* SignalLayout::pack, the spans applied in order from span i on
RECURSIVE PackFrom(_, _, _, _)
PackFrom(l, d, r, i) ==
    IF i > Len(l.segments) THEN d
    ELSE LET span == l.segments[i]
         IN  PackFrom(l, [d EXCEPT ![span.byte_index] = PackSpan(span, @, r)],
                      r, i + 1)

\* a pack that writes only where the payload holds no bit of the signal
pack_once(l, d, r) == IF extract(l, d) # {} THEN d ELSE PackFrom(l, d, r, 1)

pack(l, d, r) == PackFrom(l, d, r, 1)

----------------------------------------------------------------------------
(* f64.  The model holds the integer-valued f64 values only, a sign and a  *)
(* magnitude; the magnitude is a natural number written as the set of its  *)
(* 1 bits, of 53 significant bits at most.  A product, a sum or a quotient *)
(* other than by 1 or -1, or with 0, is computed on numbers below 2^30,    *)
(* where f64 arithmetic is exact; the inputs of the model stay there.      *)

\* the natural number a bit vector below 2^30 stands for
RECURSIVE NatOf(_)
NatOf(x) ==
    IF x = {} THEN 0
    ELSE LET i == CHOOSE j \in x : TRUE IN 2^i + NatOf(x \ {i})

\* the bit vector of a natural number below 2^30
BitsOf(n) == {i \in 0 .. 29 : (n \div 2^i) % 2 = 1}

F64(neg, mag) == [neg |-> neg /\ mag # {}, mag |-> mag]

F64FromInt(n) == F64(n < 0, BitsOf(IF n < 0 THEN -n ELSE n))

F64ToInt(x) == IF x.neg THEN -NatOf(x.mag) ELSE NatOf(x.mag)

\* x + 2^i on bit vectors: the carry runs up to the first 0 bit
AddPow2(x, i) ==
    LET j == CHOOSE k \in i .. (WordBits + 2) :
                 k \notin x /\ \A m \in i .. (k - 1) : m \in x
    IN  {m \in x : m < i \/ m > j} \cup {j}

\* the f64 nearest to a natural number: 53 significant bits, ties to even
RoundToF64(mag) ==
    IF mag = {} THEN {}
    ELSE LET top == CHOOSE i \in mag : \A j \in mag : j <= i
             cut == top - (MantissaBits - 1)
             kept == {i \in mag : i >= cut}
             half == (cut - 1) \in mag
             sticky == \E i \in mag : i < cut - 1
             odd == cut \in mag
         IN  IF cut <= 0 THEN mag
             ELSE IF half /\ (sticky \/ odd) THEN AddPow2(kept, cut)
             ELSE kept

\* `x as f64` of a u64
U64AsF64(x) == F64(FALSE, RoundToF64(x))

\* `x as f64` of an i64: the magnitude of a negative number is !x + 1
I64AsF64(x) ==
    IF (WordBits - 1) \in x
    THEN F64(TRUE, RoundToF64(AddPow2(U64 \ x, 0)))
    ELSE F64(FALSE, RoundToF64(x))

\* `x as u64` of an f64: the cast saturates, a negative value becomes 0
F64AsU64(x) ==
    IF x.neg THEN {}
    ELSE IF \E i \in x.mag : i >= WordBits THEN U64
    ELSE x.mag

\* `x as i64` of an f64: the cast saturates at i64::MIN and i64::MAX
F64AsI64(x) ==
    IF ~x.neg
    THEN IF \E i \in x.mag : i >= WordBits - 1 THEN U64 \ {WordBits - 1}
         ELSE x.mag
    ELSE IF \E i \in x.mag : i >= WordBits - 1 THEN {WordBits - 1}
         ELSE AddPow2(U64 \ x.mag, 0) \cap U64

F64Neg(x) == F64(~x.neg, x.mag)

\* x * k for an integer k
F64Mul(x, k) ==
    IF k = 1 THEN x
    ELSE IF k = -1 THEN F64Neg(x)
    ELSE F64FromInt(F64ToInt(x) * k)

\* x + k for an integer k
F64Add(x, k) == IF k = 0 THEN x ELSE F64FromInt(F64ToInt(x) + k)

\* x / k for an integer k # 0: the quotient, kept as a fraction
F64Div(x, k) == [num |-> x, den |-> k]

\* a / b rounded to the nearest integer, half away from zero
RoundHalfAway(a, b) ==
    LET na == IF a < 0 THEN -a ELSE a
        nb == IF b < 0 THEN -b ELSE b
        q == (2 * na + nb) \div (2 * nb)
    IN  IF (a < 0) # (b < 0) THEN -q ELSE q

\* f64::round of a quotient
F64Round(q) ==
    IF q.den = 1 THEN q.num
    ELSE IF q.den = -1 THEN F64Neg(q.num)
    ELSE F64FromInt(RoundHalfAway(F64ToInt(q.num), q.den))

----------------------------------------------------------------------------
(* The signal codec: SignalLayout::decode and compute_raw_value *)

\* a bug of decode: the value is not sign extended
SignExtendNone(x, width) == x

\* ((raw as i64) << shift_len) >> shift_len, with shift_len = 64 - width:
\* the right shift of an i64 copies the sign bit
SignExtend(x, width) ==
    LET shift_len == WordBits - width
        shifted == Shl(x, shift_len, WordBits)
    IN  Shr(shifted, shift_len)
        \cup (IF (WordBits - 1) \in shifted
              THEN {i \in U64 : i >= WordBits - shift_len}
              ELSE {})

\* the match on value_type of decode and of compute_signal_value, then
\* final_value * factor + offset
compute_signal_value(decoded_value, spec) ==
    LET final_value ==
            IF spec.value_type = "Signed"
            THEN I64AsF64(SignExtend(decoded_value, spec.signal_size))
            ELSE U64AsF64(decoded_value)
    IN  F64Add(F64Mul(final_value, spec.factor), spec.offset)

\* SignalLayout::decode
decode(l, d, spec) == compute_signal_value(extract(l, d), spec)

\* (1u64 << signal_size) - 1
LowMask(signal_size) == {i \in U64 : i < signal_size}

\* a bug of compute_raw_value: the Unsigned branch casts through i64
compute_raw_value_wrapping(physical_value, spec) ==
    LET raw_f64 == F64Div(F64Add(physical_value, -spec.offset), spec.factor)
        raw_i64 == F64AsI64(F64Round(raw_f64))
    IN  IF spec.signal_size >= 64 THEN raw_i64
        ELSE raw_i64 \cap LowMask(spec.signal_size)

\* compute_raw_value
compute_raw_value(physical_value, spec) ==
    LET raw_f64 == F64Div(F64Add(physical_value, -spec.offset), spec.factor)
    IN  IF spec.value_type = "Signed"
        THEN LET raw_i64 == F64AsI64(F64Round(raw_f64))
             IN  IF spec.signal_size >= 64 THEN raw_i64
                 ELSE raw_i64 \cap LowMask(spec.signal_size)
        ELSE LET raw_u64 == F64AsU64(F64Round(raw_f64))
             IN  IF spec.signal_size >= 64 THEN raw_u64
                 ELSE raw_u64 \cap LowMask(spec.signal_size)

----------------------------------------------------------------------------
(* can_decoder.rs: the bit-at-a-time decoder *)

\* the BigEndian loops of decode_signal: the inner loop takes the bits of a
\* byte from bit_index downwards, as many as are left, each shifted in at
\* the low end; the outer loop goes to bit 7 of the next byte
RECURSIVE DecodeBitsBigEndian(_, _, _, _, _)
DecodeBitsBigEndian(d, byte_index, bit_index, len, res) ==
    IF len = 0 THEN res
    ELSE LET taken == Min(len, bit_index + 1)
             bits == Shr(d[byte_index], bit_index + 1 - taken) \cap Mask(taken)
         IN  DecodeBitsBigEndian(d, byte_index + 1, 7, len - taken,
                                 Shl(res, taken, WordBits) \cup bits)

\* the LittleEndian loops of decode_signal: the inner loop takes the bits of
\* a byte from bit_index upwards, as many as are left, each shifted in at
\* bit signal_size - 1; the outer loop goes to bit 0 of the next byte
RECURSIVE DecodeBitsLittleEndian(_, _, _, _, _, _)
DecodeBitsLittleEndian(d, byte_index, bit_index, len, res, signal_size) ==
    IF len = 0 THEN res
    ELSE LET taken == Min(len, ByteBits - bit_index)
             bits == Shr(d[byte_index], bit_index) \cap Mask(taken)
         IN  DecodeBitsLittleEndian(d, byte_index + 1, 0, len - taken,
                                    Shr(res, taken)
                                    \cup Shl(bits, signal_size - taken, WordBits),
                                    signal_size)

\* the raw value decode_signal gathers
decode_signal_raw(d, spec) ==
    IF spec.byte_order = "BigEndian"
    THEN DecodeBitsBigEndian(d, spec.start_bit \div 8, spec.start_bit % 8,
                             spec.signal_size, {})
    ELSE DecodeBitsLittleEndian(d, spec.start_bit \div 8, spec.start_bit % 8,
                                spec.signal_size, {}, spec.signal_size)

\* decode_signal
decode_signal(can_frame, spec) ==
    compute_signal_value(decode_signal_raw(can_frame.data, spec), spec)

\* decode_message: the values of the signals in declaration order
decode_message(can_frame, message_spec) ==
    [id |-> can_frame.id,
     signals |-> [i \in 1 .. Len(message_spec.signals) |->
                     message_spec.signals[i].name],
     values |-> [i \in 1 .. Len(message_spec.signals) |->
                    decode_signal(can_frame, message_spec.signals[i])]]

----------------------------------------------------------------------------
(* can_decoder.rs: the byte-at-a-time decoder *)

\* masks[mask_index]
ByteMask(mask_index) == {i \in U8 : i <= mask_index}

\* the BigEndian loop of decode_signal_by_bytes: the bits of a byte from
\* bit_index down to bit_end are shifted in at the low end
RECURSIVE DecodeBytesBigEndian(_, _, _, _, _)
DecodeBytesBigEndian(d, byte_index, bit_index, len, res) ==
    IF len > 0
    THEN LET bit_end == IF bit_index + 1 - len < 0 THEN 0
                        ELSE bit_index + 1 - len
             incoming_bit_len == bit_index + 1 - bit_end
             mask_index == incoming_bit_len - 1
             byte_val == Shr(d[byte_index], bit_end) \cap ByteMask(mask_index)
         IN  DecodeBytesBigEndian(d, byte_index + 1, 7, len - incoming_bit_len,
                                  Shl(res, incoming_bit_len, WordBits)
                                  \cup byte_val)
    ELSE res

\* a LittleEndian loop that shifts the result left for every byte, as the
\* BigEndian loop does
RECURSIVE DecodeBytesLittleEndianShifts(_, _, _, _, _, _)
DecodeBytesLittleEndianShifts(d, byte_index, bit_index, len, res, signal_size) ==
    IF len # 0
    THEN LET bit_end == IF bit_index + len - 1 >= 8 THEN 7
                        ELSE bit_index + len - 1
             incoming_bit_len == bit_end - bit_index + 1
             mask_index == incoming_bit_len - 1
             byte_val == Shr(d[byte_index], bit_index) \cap ByteMask(mask_index)
         IN  DecodeBytesLittleEndianShifts(
                 d, byte_index + 1, 0, len - incoming_bit_len,
                 Shl(res, incoming_bit_len, WordBits) \cup byte_val,
                 signal_size)
    ELSE res

\* the LittleEndian loop of decode_signal_by_bytes: the bits of a byte from
\* bit_index up to bit_end are put above the bits gathered so far
RECURSIVE DecodeBytesLittleEndian(_, _, _, _, _, _)
DecodeBytesLittleEndian(d, byte_index, bit_index, len, res, signal_size) ==
    IF len # 0
    THEN LET bit_end == IF bit_index + len - 1 >= 8 THEN 7
                        ELSE bit_index + len - 1
             incoming_bit_len == bit_end - bit_index + 1
             mask_index == incoming_bit_len - 1
             byte_val == Shr(d[byte_index], bit_index) \cap ByteMask(mask_index)
         IN  DecodeBytesLittleEndian(
                 d, byte_index + 1, 0, len - incoming_bit_len,
                 res \cup Shl(byte_val, signal_size - len, WordBits),
                 signal_size)
    ELSE res

\* the raw value decode_signal_by_bytes gathers
decode_signal_by_bytes_raw(d, spec) ==
    IF spec.byte_order = "BigEndian"
    THEN DecodeBytesBigEndian(d, spec.start_bit \div 8, spec.start_bit % 8,
                              spec.signal_size, {})
    ELSE DecodeBytesLittleEndian(d, spec.start_bit \div 8, spec.start_bit % 8,
                                 spec.signal_size, {}, spec.signal_size)

\* decode_signal_by_bytes
decode_signal_by_bytes(can_frame, spec) ==
    compute_signal_value(decode_signal_by_bytes_raw(can_frame.data, spec), spec)

\* get_signal_spec: the index of the first signal of that name, 0 for None
get_signal_spec(message_spec, signal_name) ==
    IF \E i \in 1 .. Len(message_spec.signals) :
           message_spec.signals[i].name = signal_name
    THEN CHOOSE i \in 1 .. Len(message_spec.signals) :
             /\ message_spec.signals[i].name = signal_name
             /\ \A j \in 1 .. (i - 1) : message_spec.signals[j].name # signal_name
    ELSE 0

----------------------------------------------------------------------------
(* can_encoder.rs *)

\* An f64 that holds a time in seconds: sign, the decimal digits of the
\* integer part, and the fraction num / den.  den is 2^k where the f64 has k
\* fraction bits left, and 10^6 where it has more than 23: there the f64 lies
\* within 2^-25 of a multiple of a microsecond, which stands for it.
Time(neg, int, num, den) == [neg |-> neg, int |-> int, num |-> num, den |-> den]

MicrosPerSecond == 1000000

\* 0.0
TimeZero == Time(FALSE, <<0>>, 0, MicrosPerSecond)

\* CanFrame::default()
CanFrameDefault ==
    [timestamp |-> TimeZero, channel |-> <<>>, id |-> 0, is_rx |-> FALSE,
     is_fd |-> FALSE, len |-> 8, data |-> ZeroData]

\* the loop of encode_message from pair i on: the first unknown name ends it
RECURSIVE EncodePairs(_, _, _, _)
EncodePairs(message_spec, signals, i, fr) ==
    IF i > Len(signals) THEN [outcome |-> "Ok", frame |-> fr]
    ELSE LET k == get_signal_spec(message_spec, signals[i].name)
         IN  IF k = 0
             THEN [outcome |-> "UnknownSignal", name |-> signals[i].name]
             ELSE LET spec == message_spec.signals[k]
                      l == from_spec(spec)
                      r == compute_raw_value(signals[i].value, spec)
                  IN  EncodePairs(message_spec, signals, i + 1,
                                  [fr EXCEPT !.data = pack(l, @, r)])

\* a bug of encode_message: the length of the default frame is kept
encode_message_default_len(message_spec, signals, id) ==
    EncodePairs(message_spec, signals, 1, [CanFrameDefault EXCEPT !.id = id])

\* encode_message; `message_size as u8` keeps the low 8 bits
encode_message(message_spec, signals, id) ==
    EncodePairs(message_spec, signals, 1,
                [CanFrameDefault EXCEPT !.id = id,
                                        !.len = message_spec.message_size % 256])

\* CanFrameBuilder::new, with the id left at its default
builder_new_default_id(message_spec, id) ==
    [live |-> TRUE, message_spec |-> message_spec,
     frame |-> [CanFrameDefault EXCEPT
                   !.len = message_spec.message_size % 256]]

\* CanFrameBuilder::new
builder_new(message_spec, id) ==
    [live |-> TRUE, message_spec |-> message_spec,
     frame |-> [CanFrameDefault EXCEPT
                   !.id = id, !.len = message_spec.message_size % 256]]

\* CanFrameBuilder::set that lets an unknown name pass
builder_set_lenient(b, signal_name, physical_value) ==
    LET k == get_signal_spec(b.message_spec, signal_name)
    IN  IF k = 0
        THEN [outcome |-> "Ok", builder |-> b]
        ELSE LET spec == b.message_spec.signals[k]
                 l == from_spec(spec)
                 r == compute_raw_value(physical_value, spec)
             IN  [outcome |-> "Ok",
                  builder |-> [b EXCEPT !.frame.data = pack(l, @, r)]]

\* CanFrameBuilder::set: Result<Self>
builder_set(b, signal_name, physical_value) ==
    LET k == get_signal_spec(b.message_spec, signal_name)
    IN  IF k = 0
        THEN [outcome |-> "UnknownSignal", name |-> signal_name]
        ELSE LET spec == b.message_spec.signals[k]
                 l == from_spec(spec)
                 r == compute_raw_value(physical_value, spec)
             IN  [outcome |-> "Ok",
                  builder |-> [b EXCEPT !.frame.data = pack(l, @, r)]]

\* CanFrameBuilder::timestamp
builder_timestamp(b, ts) == [b EXCEPT !.frame.timestamp = ts]

\* CanFrameBuilder::channel
builder_channel(b, ch) == [b EXCEPT !.frame.channel = ch]

\* CanFrameBuilder::build
builder_build(b) == b.frame

----------------------------------------------------------------------------
(* Text: a string is the sequence of its characters.  The std functions    *)
(* the parsers and the writer call.                                        *)

\* char::is_whitespace, for the ASCII characters
IsWhitespace(c) == c \in {" ", "\t", "\n", "\r"}

\* the digits of `{:X}`, the digit of value v at index v + 1
UpperHexDigits ==
    <<"0", "1", "2", "3", "4", "5", "6", "7", "8", "9",
      "A", "B", "C", "D", "E", "F">>

LowerHexDigits ==
    <<"0", "1", "2", "3", "4", "5", "6", "7", "8", "9",
      "a", "b", "c", "d", "e", "f">>

\* char::to_digit(16): the value of a digit, -1 for any other character
DigitVal(c) ==
    IF \E i \in 1 .. 16 : UpperHexDigits[i] = c
    THEN (CHOOSE i \in 1 .. 16 : UpperHexDigits[i] = c) - 1
    ELSE IF \E i \in 1 .. 16 : LowerHexDigits[i] = c
    THEN (CHOOSE i \in 1 .. 16 : LowerHexDigits[i] = c) - 1
    ELSE -1

\* str::split_whitespace: the maximal runs of characters that are not
\* whitespace, in order
split_whitespace(text) ==
    LET starts == {i \in 1 .. Len(text) :
                      /\ ~IsWhitespace(text[i])
                      /\ (i = 1 \/ IsWhitespace(text[i - 1]))}
        EndOf(b) == CHOOSE j \in b .. Len(text) :
                      /\ \A k \in b .. j : ~IsWhitespace(text[k])
                      /\ (j = Len(text) \/ IsWhitespace(text[j + 1]))
        Start(n) == CHOOSE b \in starts :
                      Cardinality({t \in starts : t < b}) = n - 1
    IN  [n \in 1 .. Cardinality(starts) |->
            SubSeq(text, Start(n), EndOf(Start(n)))]

\* the first index where sep occurs in text, 0 when it does not
FindText(text, sep) ==
    LET hits == {i \in 1 .. (Len(text) - Len(sep) + 1) :
                    SubSeq(text, i, i + Len(sep) - 1) = sep}
    IN  IF hits = {} THEN 0 ELSE CHOOSE i \in hits : \A j \in hits : i <= j

\* str::split(sep): the pieces between the occurrences of sep, from the left
RECURSIVE split(_, _)
split(text, sep) ==
    LET i == FindText(text, sep)
    IN  IF i = 0 THEN <<text>>
        ELSE <<SubSeq(text, 1, i - 1)>>
             \o split(SubSeq(text, i + Len(sep), Len(text)), sep)

\* the digits of an unsigned number text, after an optional +
UnsignedDigits(text) ==
    IF text # <<>> /\ text[1] = "+" THEN Tail(text) ELSE text

\* the digits without leading zeros
RECURSIVE Significant(_)
Significant(digits) ==
    IF digits # <<>> /\ digits[1] = "0" THEN Significant(Tail(digits))
    ELSE digits

\* the number the digits write in the radix
RECURSIVE DigitsValue(_, _)
DigitsValue(digits, radix) ==
    IF digits = <<>> THEN 0
    ELSE DigitsValue(SubSeq(digits, 1, Len(digits) - 1), radix) * radix
         + DigitVal(digits[Len(digits)])

\* uN::from_str_radix(text, radix), for a type of at most max_digits digits
\* in the radix and of largest value max_value (both below 2^31 here)
from_str_radix(text, radix, max_digits, max_value) ==
    LET digits == UnsignedDigits(text)
        sig == Significant(digits)
    IN  IF digits = <<>> THEN [ok |-> FALSE, kind |-> "Empty"]
        ELSE IF \E i \in 1 .. Len(digits) :
                    DigitVal(digits[i]) < 0 \/ DigitVal(digits[i]) >= radix
        THEN [ok |-> FALSE, kind |-> "InvalidDigit"]
        ELSE IF Len(sig) > max_digits
        THEN [ok |-> FALSE, kind |-> "PosOverflow"]
        ELSE IF DigitsValue(sig, radix) > max_value
        THEN [ok |-> FALSE, kind |-> "PosOverflow"]
        ELSE [ok |-> TRUE, value |-> DigitsValue(sig, radix)]

\* the largest u8
U8Max == 255

\* the largest id the model holds as a number: an id of the code is a u32,
\* the ids of the inputs are CAN ids of at most 29 bits
IdMax == 2147483647

\* u8::from_str_radix
u8_from_str_radix(text, radix) ==
    from_str_radix(text, radix, IF radix = 16 THEN 2 ELSE 3, U8Max)

\* u32::from_str_radix, for values below 2^31
u32_from_str_radix(text, radix) ==
    from_str_radix(text, radix, IF radix = 16 THEN 8 ELSE 10, IdMax)

\* the digits of n in lower case hex: `{:x}` in place of `{:X}`
RECURSIVE LowerHex(_, _)
LowerHex(n, min_width) ==
    IF n < 16 /\ min_width <= 1 THEN <<LowerHexDigits[n + 1]>>
    ELSE LowerHex(n \div 16, min_width - 1) \o <<LowerHexDigits[(n % 16) + 1]>>

\* the digits of n in upper case hex, at least min_width of them
RECURSIVE UpperHex(_, _)
UpperHex(n, min_width) ==
    IF n < 16 /\ min_width <= 1 THEN <<UpperHexDigits[n + 1]>>
    ELSE UpperHex(n \div 16, min_width - 1) \o <<UpperHexDigits[(n % 16) + 1]>>

\* the digits of n in decimal, at least min_width of them
RECURSIVE Decimal(_, _)
Decimal(n, min_width) ==
    IF n < 10 /\ min_width <= 1 THEN <<UpperHexDigits[n + 1]>>
    ELSE Decimal(n \div 10, min_width - 1) \o <<UpperHexDigits[(n % 10) + 1]>>

----------------------------------------------------------------------------
(* f64 as a time: str::parse::<f64> and `{:.6}` *)

\* a >= b, for numbers given by their decimal digits without leading zeros
DigitsGE(a, b) ==
    \/ Len(a) > Len(b)
    \/ /\ Len(a) = Len(b)
       /\ \/ a = b
          \/ \E i \in 1 .. Len(a) :
                /\ \A j \in 1 .. (i - 1) : a[j] = b[j]
                /\ a[i] > b[i]

\* 2^29 .. 2^34
TwoPow29 == <<5, 3, 6, 8, 7, 0, 9, 1, 2>>
TwoPow30 == <<1, 0, 7, 3, 7, 4, 1, 8, 2, 4>>
TwoPow31 == <<2, 1, 4, 7, 4, 8, 3, 6, 4, 8>>
TwoPow32 == <<4, 2, 9, 4, 9, 6, 7, 2, 9, 6>>
TwoPow33 == <<8, 5, 8, 9, 9, 3, 4, 5, 9, 2>>
TwoPow34 == <<1, 7, 1, 7, 9, 8, 6, 9, 1, 8, 4>>

\* the fraction bits an f64 with this integer part has left (52 less the
\* exponent); 0 stands for more than 23.  Integer parts from 2^34 on are
\* not among the inputs.
FractionBits(int) ==
    CASE ~DigitsGE(int, TwoPow29) -> 0
      [] DigitsGE(int, TwoPow29) /\ ~DigitsGE(int, TwoPow30) -> 23
      [] DigitsGE(int, TwoPow30) /\ ~DigitsGE(int, TwoPow31) -> 22
      [] DigitsGE(int, TwoPow31) /\ ~DigitsGE(int, TwoPow32) -> 21
      [] DigitsGE(int, TwoPow32) /\ ~DigitsGE(int, TwoPow33) -> 20
      [] DigitsGE(int, TwoPow33) /\ ~DigitsGE(int, TwoPow34) -> 19

\* 10^6 / 2^6
MicrosOdd == 5^6

\* the multiple of 2^-fraction_bits nearest to micros / 10^6, in units of
\* 2^-fraction_bits (a tie needs micros to be a multiple of 5^6, and then
\* the quotient is exact)
NearestBinary(micros, fraction_bits) ==
    LET shift == 2^(fraction_bits - 6)
        q == micros \div MicrosOdd
        r == micros % MicrosOdd
        whole == (r * shift) \div MicrosOdd
        rem == (r * shift) % MicrosOdd
    IN  q * shift + whole + (IF 2 * rem > MicrosOdd THEN 1 ELSE 0)

\* the multiple of 10^-6 nearest to num / den for den = 2^k, in units of
\* 10^-6, a tie going to the even one
NearestMicros(num, den) ==
    LET shift == den \div 64
        a == num \div shift
        b == num % shift
        whole == (b * MicrosOdd) \div shift
        rem == (b * MicrosOdd) % shift
        up == \/ 2 * rem > shift
              \/ 2 * rem = shift /\ (a * MicrosOdd + whole) % 2 = 1
    IN  a * MicrosOdd + whole + (IF up THEN 1 ELSE 0)

IsDecimal(text) ==
    \A i \in 1 .. Len(text) : DigitVal(text[i]) \in 0 .. 9

\* str::parse::<f64>, for texts of the form [+-]digits[.digits] with at
\* most 6 digits after the point (exponents, inf and nan are not among the
\* inputs); any other text of the inputs is an error
parse_f64(text) ==
    LET signed == text # <<>> /\ text[1] \in {"+", "-"}
        body == IF signed THEN Tail(text) ELSE text
        dot == FindText(body, <<".">>)
        int_text == IF dot = 0 THEN body ELSE SubSeq(body, 1, dot - 1)
        frac_text == IF dot = 0 THEN <<>>
                     ELSE SubSeq(body, dot + 1, Len(body))
        sig == Significant(int_text)
        int == IF sig = <<>> THEN <<0>>
               ELSE [i \in 1 .. Len(sig) |-> DigitVal(sig[i])]
        micros == CASE Len(frac_text) <= 6 ->
                      DigitsValue(frac_text, 10) * 10^(6 - Len(frac_text))
        fraction_bits == FractionBits(int)
    IN  IF \/ ~IsDecimal(int_text)
           \/ ~IsDecimal(frac_text)
           \/ (int_text = <<>> /\ frac_text = <<>>)
        THEN [ok |-> FALSE]
        ELSE [ok |-> TRUE,
              value |->
                 IF fraction_bits = 0
                 THEN Time(signed /\ text[1] = "-", int, micros,
                           MicrosPerSecond)
                 ELSE Time(signed /\ text[1] = "-", int,
                           NearestBinary(micros, fraction_bits),
                           2^fraction_bits)]

\* format!("{:.6}", t), for times whose fraction rounds below 1
format_f64_6(t) ==
    LET micros == IF t.den = MicrosPerSecond THEN t.num
                  ELSE NearestMicros(t.num, t.den)
    IN  CASE micros < MicrosPerSecond ->
            (IF t.neg THEN <<"-">> ELSE <<>>)
            \o [i \in 1 .. Len(t.int) |-> UpperHexDigits[t.int[i] + 1]]
            \o <<".">>
            \o Decimal(micros, 6)

----------------------------------------------------------------------------
(* canlog_reader.rs: the candump parser; canlog_writer.rs *)

\* candump_hex_to_bytes that reads the first character of a pair only
candump_hex_to_bytes_one_digit(hex_str) ==
    LET steps == (Len(hex_str) + 1) \div 2
        Byte(k) == u8_from_str_radix(SubSeq(hex_str, 2 * k + 1, 2 * k + 1), 16)
        Step(k) == IF 2 * k + 2 > Len(hex_str) THEN "panic"
                   ELSE IF ~Byte(k).ok THEN "ParseError"
                   ELSE IF k >= DEFAULT_FRAME_PAYLOAD_LEN THEN "panic"
                   ELSE "Ok"
        failing == {k \in 0 .. (steps - 1) : Step(k) # "Ok"}
    IN  IF failing = {}
        THEN [outcome |-> "Ok",
              data |-> [b \in 0 .. (DEFAULT_FRAME_PAYLOAD_LEN - 1) |->
                           IF b < steps THEN BitsOf(Byte(b).value) ELSE {}]]
        ELSE [outcome |-> Step(CHOOSE k \in failing : \A j \in failing : k <= j)]

\* candump_hex_to_bytes: the loop takes two characters a step; a step
\* panics on a slice past the end of the text, returns the error of a pair
\* that is no hex number, panics on an index past the end of the array
candump_hex_to_bytes(hex_str) ==
    LET steps == (Len(hex_str) + 1) \div 2
        Byte(k) == u8_from_str_radix(SubSeq(hex_str, 2 * k + 1, 2 * k + 2), 16)
        Step(k) == IF 2 * k + 2 > Len(hex_str) THEN "panic"
                   ELSE IF ~Byte(k).ok THEN "ParseError"
                   ELSE IF k >= DEFAULT_FRAME_PAYLOAD_LEN THEN "panic"
                   ELSE "Ok"
        failing == {k \in 0 .. (steps - 1) : Step(k) # "Ok"}
    IN  IF failing = {}
        THEN [outcome |-> "Ok",
              data |-> [b \in 0 .. (DEFAULT_FRAME_PAYLOAD_LEN - 1) |->
                           IF b < steps THEN BitsOf(Byte(b).value) ELSE {}]]
        ELSE [outcome |-> Step(CHOOSE k \in failing : \A j \in failing : k <= j)]

\* parse_candump_line: Ok with a frame, Err, or a panic
parse_candump_line(text) ==
    LET line_splits == split_whitespace(text)
        timestamp == parse_f64(SubSeq(line_splits[1], 2, Len(line_splits[1]) - 1))
        id_and_data_substr == line_splits[3]
        by_fd == split(id_and_data_substr, <<"#", "#">>)
        is_fd == Len(by_fd) > 1
        start_idx == IF is_fd THEN 1 ELSE 0
        id_and_data == IF is_fd THEN by_fd
                       ELSE split(id_and_data_substr, <<"#">>)
        id == u32_from_str_radix(id_and_data[1], 16)
        candump_data_payload ==
            SubSeq(id_and_data[2], start_idx + 1, Len(id_and_data[2]))
        bytes == candump_hex_to_bytes(candump_data_payload)
    IN  IF Len(line_splits) < 1 THEN [outcome |-> "ParseError"]
        ELSE IF Len(line_splits[1]) < 2 THEN [outcome |-> "panic"]
        ELSE IF ~timestamp.ok THEN [outcome |-> "ParseError"]
        ELSE IF Len(line_splits) < 3 THEN [outcome |-> "ParseError"]
        ELSE IF ~id.ok THEN [outcome |-> "ParseError"]
        ELSE IF Len(id_and_data) < 2 THEN [outcome |-> "panic"]
        ELSE IF start_idx > Len(id_and_data[2]) THEN [outcome |-> "panic"]
        ELSE IF bytes.outcome # "Ok" THEN [outcome |-> bytes.outcome]
        ELSE [outcome |-> "Ok",
              frame |-> [timestamp |-> timestamp.value,
                         channel |-> line_splits[2],
                         id |-> id.value,
                         is_rx |-> TRUE,
                         is_fd |-> is_fd,
                         len |-> (Len(candump_data_payload) \div 2) % 256,
                         data |-> bytes.data]]

\* the `{:02X}` of the first len bytes of a payload
HexOfData(d, len) ==
    [j \in 1 .. (2 * len) |->
        LET byte == NatOf(d[(j - 1) \div 2])
        IN  UpperHexDigits[(IF j % 2 = 1 THEN byte \div 16 ELSE byte % 16) + 1]]

\* frame_to_candump_line that writes every frame as a classical one
frame_to_candump_line_classic(f) ==
    IF f.len > DEFAULT_FRAME_PAYLOAD_LEN THEN [outcome |-> "panic"]
    ELSE [outcome |-> "Ok",
          text |-> <<"(">> \o format_f64_6(f.timestamp) \o <<")", " ">>
                   \o f.channel \o <<" ">> \o UpperHex(f.id, 3)
                   \o <<"#">> \o HexOfData(f.data, f.len)]

\* frame_to_candump_line: the text, or a panic on data[i] for i >= 64
frame_to_candump_line(f) ==
    IF f.len > DEFAULT_FRAME_PAYLOAD_LEN THEN [outcome |-> "panic"]
    ELSE [outcome |-> "Ok",
          text |-> <<"(">> \o format_f64_6(f.timestamp) \o <<")", " ">>
                   \o f.channel \o <<" ">> \o UpperHex(f.id, 3)
                   \o (IF f.is_fd THEN <<"#", "#", "0">> ELSE <<"#">>)
                   \o HexOfData(f.data, f.len)]

----------------------------------------------------------------------------
(* canlog_writer.rs: CandumpWriter *)

\* the capacity BufWriter::new gives the buffer
BufCapacity == 8192

\* BufWriter::write_all: the bytes go into the buffer while they fit; bytes
\* that do not fit send the buffer to the sink first, and bytes of the
\* capacity or more go to the sink at once
write_all(w, bytes) ==
    LET flushed == IF Len(bytes) > BufCapacity - Len(w.buf)
                   THEN [buf |-> <<>>, inner |-> w.inner \o w.buf]
                   ELSE w
    IN  IF Len(bytes) >= BufCapacity
        THEN [flushed EXCEPT !.inner = @ \o bytes]
        ELSE [flushed EXCEPT !.buf = @ \o bytes]

\* a flush that leaves the buffer where it is
flush_keeps_buffer(w) == w

\* CandumpWriter::flush: the buffer goes to the sink
flush(w) == [buf |-> <<>>, inner |-> w.inner \o w.buf]

\* CandumpWriter::write: the line of the frame and a newline
write(w, f) ==
    LET formatted == frame_to_candump_line(f)
    IN  IF formatted.outcome # "Ok" THEN [outcome |-> formatted.outcome]
        ELSE [outcome |-> "Ok",
              writer |-> write_all(w, formatted.text \o <<"\n">>)]

----------------------------------------------------------------------------
(* canlog_reader.rs: the Vector ASCII parser *)

\* a radix that is 16 whatever the base
RadixAlwaysHex(base) == 16

\* AsciiBase as a radix
Radix(base) == IF base = "Hex" THEN 16 ELSE 10

\* parse_can_id that leaves the x of an extended id in place
parse_can_id_keeps_x(item, radix) == u32_from_str_radix(item, radix)

\* parse_can_id: an extended id ends with x
parse_can_id(item, radix) ==
    IF item # <<>> /\ item[Len(item)] = "x"
    THEN u32_from_str_radix(SubSeq(item, 1, Len(item) - 1), radix)
    ELSE u32_from_str_radix(item, radix)

\* the loop over rest_of_line = splits[first ..]: item i is stored while
\* i < len; an item that is no u8 ends the loop with an error, an item at
\* i >= 64 with a panic of data[i]
AsciiData(splits, first, len, radix) ==
    LET steps == Min(Len(splits) - first + 1, len)
        Byte(i) == u8_from_str_radix(splits[first + i], radix)
        Step(i) == IF ~Byte(i).ok THEN "ParseError"
                   ELSE IF i >= DEFAULT_FRAME_PAYLOAD_LEN THEN "panic"
                   ELSE "Ok"
        failing == {i \in 0 .. (steps - 1) : Step(i) # "Ok"}
    IN  IF failing = {}
        THEN [outcome |-> "Ok",
              data |-> [b \in 0 .. (DEFAULT_FRAME_PAYLOAD_LEN - 1) |->
                           IF b < steps THEN BitsOf(Byte(b).value) ELSE {}]]
        ELSE [outcome |-> Step(CHOOSE i \in failing : \A j \in failing : i <= j)]

\* parse_ascii_can_2_0: <Time> <Channel> <ID> <Dir> d <DLC> <D0> ..., or
\* <Time> <Channel> <ID> <Dir> r for a remote frame
parse_ascii_can_2_0(splits, radix) ==
    LET timestamp == parse_f64(splits[1])
        id == parse_can_id(splits[3], radix)
        base_frame == [CanFrameDefault EXCEPT !.timestamp = timestamp.value,
                                             !.channel = splits[2],
                                             !.id = id.value,
                                             !.is_rx = (splits[4] = <<"R", "x">>)]
        len == u8_from_str_radix(splits[6], 10)
        bytes == AsciiData(splits, 7, len.value, radix)
    IN  IF ~timestamp.ok THEN [outcome |-> "ParseError"]
        ELSE IF ~id.ok THEN [outcome |-> "ParseError"]
        ELSE IF splits[5] = <<"r">>
        THEN [outcome |-> "Ok", frame |-> [base_frame EXCEPT !.len = 0]]
        ELSE IF Len(splits) < 6 THEN [outcome |-> "ParseError"]
        ELSE IF ~len.ok THEN [outcome |-> "ParseError"]
        ELSE IF bytes.outcome # "Ok" THEN [outcome |-> bytes.outcome]
        ELSE [outcome |-> "Ok",
              frame |-> [base_frame EXCEPT !.len = len.value,
                                           !.data = bytes.data]]

\* parse_ascii_can_fd: <Time> CANFD <Channel> <Dir> <ID> . . . <DataLength>
\* <D0> ...
parse_ascii_can_fd(splits, radix) ==
    LET timestamp == parse_f64(splits[1])
        id == parse_can_id(splits[5], radix)
        len == u8_from_str_radix(splits[9], 10)
        bytes == AsciiData(splits, 10, len.value, radix)
    IN  IF ~timestamp.ok THEN [outcome |-> "ParseError"]
        ELSE IF ~id.ok THEN [outcome |-> "ParseError"]
        ELSE IF Len(splits) < 9 THEN [outcome |-> "ParseError"]
        ELSE IF ~len.ok THEN [outcome |-> "ParseError"]
        ELSE IF bytes.outcome # "Ok" THEN [outcome |-> bytes.outcome]
        ELSE [outcome |-> "Ok",
              frame |-> [CanFrameDefault EXCEPT !.timestamp = timestamp.value,
                                               !.is_fd = TRUE,
                                               !.channel = splits[3],
                                               !.is_rx = (splits[4] = <<"R", "x">>),
                                               !.id = id.value,
                                               !.len = len.value,
                                               !.data = bytes.data]]

\* parse_ascii_line
parse_ascii_line(text, base) ==
    LET splits == split_whitespace(text)
    IN  IF Len(splits) < 5 THEN [outcome |-> "ParseError"]
        ELSE IF splits[2] = <<"C", "A", "N", "F", "D">>
        THEN parse_ascii_can_fd(splits, Radix(base))
        ELSE parse_ascii_can_2_0(splits, Radix(base))

----------------------------------------------------------------------------
(* canlog_reader.rs: CanLogParser *)

\* a get_ascii_base that looks for the base in the first line
get_ascii_base_first_line(lines) ==
    LET base_line == IF Len(lines) >= 1 THEN lines[1] ELSE <<>>
        tokens == split_whitespace(base_line)
    IN  IF Len(tokens) < 2 THEN [ok |-> FALSE]
        ELSE IF tokens[2] = <<"h", "e", "x">> THEN [ok |-> TRUE, base |-> "Hex"]
        ELSE IF tokens[2] = <<"d", "e", "c">> THEN [ok |-> TRUE, base |-> "Dec"]
        ELSE [ok |-> FALSE]

\* get_ascii_base of the lines of a log: the second token of the second
\* line names the base
get_ascii_base(lines) ==
    LET base_line == IF Len(lines) >= 2 THEN lines[2] ELSE <<>>
        tokens == split_whitespace(base_line)
    IN  IF Len(tokens) < 2 THEN [ok |-> FALSE]
        ELSE IF tokens[2] = <<"h", "e", "x">> THEN [ok |-> TRUE, base |-> "Hex"]
        ELSE IF tokens[2] = <<"d", "e", "c">> THEN [ok |-> TRUE, base |-> "Dec"]
        ELSE [ok |-> FALSE]

\* the format and the base of a CanLogParser
Parser(format_name, base) == [format |-> format_name, ascii_base |-> base]

\* CanLogParser::from_bytes
from_bytes(lines) ==
    LET base == get_ascii_base(lines)
    IN  IF base.ok THEN Parser("VectorAscii", base.base)
        ELSE Parser("Candump", "None")

\* CanLogParser::from_file of a file with the extension and the lines
from_file(extension, lines) ==
    IF extension = "log" THEN [ok |-> TRUE, parser |-> Parser("Candump", "None")]
    ELSE IF extension = "asc"
    THEN IF get_ascii_base(lines).ok
         THEN [ok |-> TRUE, parser |-> Parser("VectorAscii", "Hex")]
         ELSE [ok |-> FALSE]
    ELSE [ok |-> FALSE]

----------------------------------------------------------------------------
(* Inputs *)

ByteOrders == {"BigEndian", "LittleEndian"}

\* the signals the spec calls valid: start bit 0..63, width 1..64
LayoutSignals ==
    [start_bit : U64, signal_size : 1 .. WordBits, byte_order : ByteOrders]

\* sample payloads: bit patterns that differ from byte to byte
BufPattern(k) ==
    [b \in 0 .. (DEFAULT_FRAME_PAYLOAD_LEN - 1) |->
        {j \in U8 : ((8 * b + j) * (8 * b + j + k)) % 7 < 3 + k}]

\* the zeroed payload and the sample patterns
SampleBuffers == {ZeroData} \cup {BufPattern(k) : k \in 0 .. (NumBufPatterns - 1)}

\* sample raw values: a mixed pattern, all ones, then more mixed patterns
RawPattern(k) ==
    IF k = 1 THEN U64
    ELSE {i \in U64 : (i * i + (k + 2) * i) % 5 < 2}

RawPatterns == {RawPattern(k) : k \in 0 .. (NumRawPatterns - 1)}

AllOnesData == [b \in 0 .. (DEFAULT_FRAME_PAYLOAD_LEN - 1) |-> U8]

ValueTypes == {"Signed", "Unsigned"}

\* the widths tried with a scaling other than the identity, and the widths
\* around the 53 bits of an f64 and the 64 bits of the raw value
NarrowWidths == {1, 2, 3, 8, 12}
WideWidths == {53, 54, 55, 63, 64}

\* factor and offset: integers, so that every product and sum is exact
Scaling(factor, offset) == [factor |-> factor, offset |-> offset]
IdentityScaling == Scaling(1, 0)
Scalings == {IdentityScaling, Scaling(-1, 0), Scaling(2, 1), Scaling(-3, -2)}

CodecStartBits == {0, 13}

Signal(start_bit, signal_size, byte_order, value_type, scaling) ==
    [start_bit |-> start_bit, signal_size |-> signal_size,
     byte_order |-> byte_order, value_type |-> value_type,
     factor |-> scaling.factor, offset |-> scaling.offset]

CodecSignals ==
    {Signal(sb, w, bo, vt, sc) :
        sb \in CodecStartBits, w \in NarrowWidths, bo \in ByteOrders,
        vt \in ValueTypes, sc \in Scalings}
    \cup {Signal(sb, w, bo, vt, IdentityScaling) :
        sb \in CodecStartBits, w \in WideWidths, bo \in ByteOrders,
        vt \in ValueTypes}

CodecBuffers == SampleBuffers \cup {AllOnesData}

\* the sample physical values of a signal: small integers, and for a signal
\* of identity scaling the powers of two around the ends of i64 and u64
BigExponents == {53, 62, 63, 64}
PhysicalSamples(spec) ==
    {F64FromInt(n) : n \in (-MaxPhysical) .. MaxPhysical}
    \cup (IF spec.factor = 1 /\ spec.offset = 0
          THEN {F64(s, {k}) : s \in BOOLEAN, k \in BigExponents}
          ELSE {})

\* the signals of the sample messages: a first signal "A" ...
MessageStartBits == {0, 7, 12}
MessageNarrowWidths == {1, 8, 12}
MessageWideWidths == {54, 64}
MessageScalings == {IdentityScaling, Scaling(2, 1)}

Named(name, spec) ==
    [name |-> name, start_bit |-> spec.start_bit,
     signal_size |-> spec.signal_size, byte_order |-> spec.byte_order,
     value_type |-> spec.value_type, factor |-> spec.factor,
     offset |-> spec.offset]

FirstSignals ==
    {Named("A", Signal(sb, w, bo, vt, sc)) :
        sb \in MessageStartBits, w \in MessageNarrowWidths, bo \in ByteOrders,
        vt \in ValueTypes, sc \in MessageScalings}
    \cup {Named("A", Signal(sb, w, bo, vt, IdentityScaling)) :
        sb \in MessageStartBits, w \in MessageWideWidths, bo \in ByteOrders,
        vt \in ValueTypes}

\* ... and a second signal "B", in the third byte or across the first two
SecondSignals ==
    {Named("B", Signal(16, 8, "LittleEndian", "Unsigned", IdentityScaling)),
     Named("B", Signal(3, 6, "BigEndian", "Signed", Scaling(2, 1)))}

\* the declared sizes in bytes of the sample messages
MessageSizes == {2, 8, 264}

Messages ==
    {[message_size |-> n, signals |-> <<a>>] :
        n \in MessageSizes, a \in FirstSignals}
    \cup {[message_size |-> n, signals |-> <<a, b>>] :
        n \in MessageSizes, a \in FirstSignals, b \in SecondSignals}

MessageIds == {10, 496}

MessageBuffers == {ZeroData, BufPattern(0), AllOnesData}

\* the sample pair lists of a message: one or two of its names, a name twice
\* included, with sample values
PairValues == {F64FromInt(-2), F64FromInt(3)}
Pair(name, value) == [name |-> name, value |-> value]
SignalNames(message_spec) ==
    {message_spec.signals[i].name : i \in 1 .. Len(message_spec.signals)}
PairLists(message_spec) ==
    {<<Pair(n, v)>> : n \in SignalNames(message_spec), v \in PairValues}
    \cup {<<Pair(n1, v1), Pair(n2, v2)>> :
            n1 \in SignalNames(message_spec), n2 \in SignalNames(message_spec),
            v1 \in PairValues, v2 \in PairValues}

NoMessage == [message_size |-> 0, signals |-> <<>>]

\* no frame: the Err of a Result<CanFrame>, the None of an Option<CanFrame>
NoFrame == [none |-> TRUE]

\* no builder: it was never made, or a call that takes self consumed it
NoBuilder == [live |-> FALSE]

\* the frame builder is not in use
BuilderIdle ==
    /\ error = ""
    /\ builder = NoBuilder

\* no CanLogParser is in use
ReaderIdle ==
    /\ input = <<>>
    /\ consumed = <<>>
    /\ yielded = <<>>
    /\ received = <<>>
    /\ ended = FALSE
    /\ format = [format |-> "Candump", ascii_base |-> "None"]

\* no CandumpWriter is in use
WriterIdle ==
    /\ writer = [buf |-> <<>>, inner |-> <<>>]
    /\ submitted = <<>>

\* the log parsers, the writer and the reader are not in use
LogIdle ==
    /\ line = <<>>
    /\ written = <<>>
    /\ origin = NoFrame
    /\ ReaderIdle
    /\ WriterIdle

\* the signals a layout may be asked for, valid or not
SchemaStartBits == {0, 7, 63, 500, 511, 512}
SchemaWidths == {0, 1, 8, 64, 65, 300}
SchemaSignals ==
    [start_bit : SchemaStartBits, signal_size : SchemaWidths,
     byte_order : ByteOrders]

\* the sample candump lines are put together from these parts; the plain
\* parts are the ones of a line as candump writes it
PlainTimestamps ==
    {<<"(", "1", "4", "3", "6", "5", "0", "9", "0", "5", "3", ".", "8", "5", "0", "8", "7", "0", ")">>,
     <<"(", "0", ".", "0", "0", "0", "0", "0", "0", ")">>,
     <<"(", "4", "2", "9", "4", "9", "6", "7", "2", "9", "6", ".", "9", "9", "9", "9", "9", "9", ")">>,
     <<"(", "8", "5", "8", "9", "9", "3", "4", "5", "9", "1", ".", "9", "9", "9", "9", "9", "9", ")">>}

OddTimestamps ==
    {<<"(", "9", "9", "9", "9", "9", "9", "9", "9", "9", "9", ".", "0", "0", "0", "0", "0", "1", ")">>,
     <<"(", "1", ".", "8", "5", "0", "8", "7", ")">>,
     <<"(", "0", "1", ".", "0", "0", "0", "0", "0", "0", ")">>,
     <<"(", "1", "2", ")">>,
     <<"[", "0", ".", "0", "0", "0", "0", "0", "0", "]">>,
     <<"(", "+", "1", ".", "0", "0", "0", "0", "0", "0", ")">>,
     <<"x">>,
     <<"(", "1", ".", "5", ".", "0", ")">>}

CandumpChannels ==
    {<<"v", "c", "a", "n", "0">>,
     <<"c">>}

PlainIds ==
    {<<"1", "A", "0">>,
     <<"0", "0", "2">>,
     <<"1", "F", "3", "3", "4", "4", "5", "5">>}

OddIds ==
    {<<"1", "a", "0">>,
     <<"0", "0", "0", "1", "A", "0">>,
     <<"1", "2">>,
     <<"+", "1", "A">>,
     <<"X", "Y", "Z">>,
     <<>>}

PlainMarks ==
    {<<"#">>,
     <<"#", "#", "0">>}

OddMarks ==
    {<<"#", "#", "1">>,
     <<"#", "#">>,
     <<"#", "#", "#">>,
     <<>>}

OddPayloads ==
    {<<"A", "B", "C">>,
     <<"a", "b">>,
     <<"G", "G">>,
     <<"+", "F">>}

OddGaps ==
    {<<" ", " ">>,
     <<"\t">>}

OddEnds ==
    {<<"\n">>,
     <<" ", "x">>}

\* the sample payload: byte i is 37 i + 11 modulo 256
SamplePayload ==
    [i \in 0 .. (DEFAULT_FRAME_PAYLOAD_LEN - 1) |-> BitsOf((37 * i + 11) % 256)]

\* the first len bytes of the sample payload, the other bytes zero
PayloadOfLen(len) ==
    [i \in 0 .. (DEFAULT_FRAME_PAYLOAD_LEN - 1) |->
        IF i < len THEN SamplePayload[i] ELSE {}]

\* the payload lengths of the sample lines and frames, and one past the
\* capacity of a frame
PlainLens == {0, 1, 8, 9, DEFAULT_FRAME_PAYLOAD_LEN}

PlainPayloads == {HexOfData(SamplePayload, n) : n \in PlainLens}

LongPayload ==
    HexOfData(SamplePayload, DEFAULT_FRAME_PAYLOAD_LEN) \o <<"0", "B">>

CandumpLine(lead, timestamp, gap, channel, id, mark, payload, end) ==
    lead \o timestamp \o gap \o channel \o gap \o id \o mark \o payload \o end

\* a line as candump writes it, with one part varied
PlainLine(timestamp, id, mark, payload) ==
    CandumpLine(<<>>, timestamp, <<" ">>, <<"v", "c", "a", "n", "0">>, id,
                mark, payload, <<>>)

FewPayloads == {HexOfData(SamplePayload, n) : n \in {1, 8}}

CandumpLines ==
    {CandumpLine(<<>>, t, <<" ">>, c, i, m, d, <<>>) :
        t \in PlainTimestamps, c \in CandumpChannels, i \in PlainIds,
        m \in PlainMarks, d \in PlainPayloads}
    \cup {PlainLine(t, <<"1", "A", "0">>, m, d) :
        t \in OddTimestamps, m \in PlainMarks, d \in FewPayloads}
    \cup {PlainLine(<<"(", "0", ".", "0", "0", "0", "0", "0", "0", ")">>, i, m, d) :
        i \in OddIds, m \in PlainMarks, d \in FewPayloads}
    \cup {PlainLine(<<"(", "0", ".", "0", "0", "0", "0", "0", "0", ")">>,
                    <<"1", "A", "0">>, m, d) :
        m \in OddMarks, d \in FewPayloads \cup {<<>>}}
    \cup {PlainLine(<<"(", "0", ".", "0", "0", "0", "0", "0", "0", ")">>,
                    <<"1", "A", "0">>, m, d) :
        m \in PlainMarks, d \in OddPayloads \cup {LongPayload}}
    \cup {CandumpLine(<<>>, <<"(", "0", ".", "0", "0", "0", "0", "0", "0", ")">>,
                      g, <<"c">>, <<"1", "A", "0">>, m, d, <<>>) :
        g \in OddGaps, m \in PlainMarks, d \in FewPayloads}
    \cup {CandumpLine(l, <<"(", "0", ".", "0", "0", "0", "0", "0", "0", ")">>,
                      <<" ">>, <<"c">>, <<"1", "A", "0">>, m, d, e) :
        l \in {<<>>, <<" ">>}, e \in OddEnds, m \in PlainMarks,
        d \in FewPayloads}
    \cup {<<>>, <<"\n">>,
          <<"(", "0", ".", "0", "0", "0", "0", "0", "0", ")">>,
          <<"(", "0", ".", "0", "0", "0", "0", "0", "0", ")", " ", "c">>}

\* the sample frames handed to the writer
FrameTimestamps ==
    {parse_f64(SubSeq(t, 2, Len(t) - 1)).value :
        t \in PlainTimestamps
              \cup {<<"(", "9", "9", "9", "9", "9", "9", "9", "9", "9", "9",
                      ".", "0", "0", "0", "0", "0", "1", ")">>}}

FrameChannels == CandumpChannels \cup {<<>>, <<"a", " ", "b">>}

FrameIds == {2, 416, 523453525}

\* is_fd and len: inside the frame invariant, and outside of it
FrameShapes ==
    {<<FALSE, 0>>, <<FALSE, 8>>, <<TRUE, 0>>, <<TRUE, 12>>,
     <<TRUE, DEFAULT_FRAME_PAYLOAD_LEN>>,
     <<FALSE, 9>>, <<TRUE, DEFAULT_FRAME_PAYLOAD_LEN + 1>>}

SampleFrames ==
    {[timestamp |-> t, channel |-> c, id |-> i, is_rx |-> rx,
      is_fd |-> sh[1], len |-> sh[2], data |-> PayloadOfLen(sh[2] + tail)] :
        t \in FrameTimestamps, c \in FrameChannels, i \in FrameIds,
        rx \in BOOLEAN, sh \in FrameShapes, tail \in {0, 1}}

\* sample second signals, spread over the first 8 bytes and over the widths
OtherSignal(k) ==
    [start_bit |-> (21 * k + 5) % WordBits,
     signal_size |-> 1 + ((5 * k) % 12),
     byte_order |-> IF k % 2 = 0 THEN "LittleEndian" ELSE "BigEndian"]

OtherSignals == {OtherSignal(k) : k \in 0 .. (NumOtherSignals - 1)}

NoSignal == [start_bit |-> 0, signal_size |-> 0, byte_order |-> "LittleEndian"]

\* the payload bits <<byte, bit>> a layout reads and writes
Covered(l) ==
    UNION {{<<l.segments[i].byte_index, k>> :
                k \in {j \in U8 : /\ l.segments[i].bit_offset <= j
                                  /\ j < l.segments[i].bit_offset
                                         + l.segments[i].num_bits}} :
           i \in 1 .. Len(l.segments)}

\* x mod 2^width
LowBits(x, width) == {i \in x : i < width}

----------------------------------------------------------------------------
(* The layout engine: a layout is built, then values are packed and        *)
(* extracted.                                                              *)

Init ==
    /\ op = "from_spec"
    /\ signal \in LayoutSignals
    /\ layout = from_spec(signal)
    /\ data \in SampleBuffers
    /\ before = data
    /\ raw = {}
    /\ result = {}
    /\ other = NoSignal
    /\ physical = F64FromInt(0)
    /\ message = NoMessage
    /\ message_id = 0
    /\ pairs = <<>>
    /\ frame = CanFrameDefault
    /\ decoded = <<>>
    /\ outcome = "Ok"
    /\ BuilderIdle
    /\ LogIdle

\* layout.pack(&mut data, r): into the zeroed payload a value that fits in
\* the width of the signal, into another payload a value of any size
Pack ==
    /\ op = "from_spec"
    /\ \E r \in RawPatterns :
        /\ raw' = IF data = ZeroData THEN LowBits(r, signal.signal_size) ELSE r
        /\ before' = data
        /\ data' = pack(layout, data, raw')
    /\ op' = "pack"
    /\ UNCHANGED <<signal, layout, result, other, physical, messageVars,
                   builderVars, logVars>>

\* layout.extract(&data)
Extract ==
    /\ op \in {"from_spec", "pack", "repack", "pack_other"}
    /\ result' = extract(layout, data)
    /\ op' = CASE op = "from_spec" -> "extract"
               [] op = "pack" -> "pack_extract"
               [] op = "repack" -> "repack_extract"
               [] op = "pack_other" -> "pack_other_extract"
    /\ UNCHANGED <<signal, layout, data, before, raw, other, physical, messageVars,
                   builderVars, logVars>>

\* the value just extracted is packed into a zeroed payload
Repack ==
    /\ op = "extract"
    /\ raw' = result
    /\ before' = ZeroData
    /\ data' = pack(layout, ZeroData, result)
    /\ op' = "repack"
    /\ UNCHANGED <<signal, layout, result, other, physical, messageVars,
                   builderVars, logVars>>

\* a second signal that shares no bit with the first is packed, all ones,
\* into the payload the first was packed into (tried after the first sample
\* value was packed into the first sample payload)
PackOther ==
    /\ op = "pack"
    /\ before = BufPattern(0)
    /\ raw = RawPattern(0)
    /\ \E b \in OtherSignals :
        /\ Covered(from_spec(b)) \cap Covered(layout) = {}
        /\ other' = b
        /\ data' = pack(from_spec(b), data, U64)
    /\ op' = "pack_other"
    /\ UNCHANGED <<signal, layout, before, raw, result, physical, messageVars,
                   builderVars, logVars>>

Next == Pack \/ Extract \/ Repack \/ PackOther

Spec == Init /\ [][Next]_vars

----------------------------------------------------------------------------
(* Claims about the layout engine *)

width == signal.signal_size

\* C1: a raw value that fits in the width of the signal, packed into a
\* zeroed payload, is the value extract returns; and a value extracted from
\* any payload, packed into a zeroed payload and extracted again, is itself.
C1_ExtractPackIdentity ==
    /\ (op = "pack_extract" /\ before = ZeroData /\ raw = LowBits(raw, width))
          => result = raw
    /\ op = "repack_extract" => result = raw

\* a value with bits at both ends of a signal of three spans or more went
\* through a zeroed payload
C1_Witness ==
    /\ op = "pack_extract"
    /\ before = ZeroData
    /\ Len(layout.segments) >= 3
    /\ raw = LowBits(raw, width)
    /\ {0, width - 1} \subseteq raw
    /\ raw # LowBits(U64, width)

\* the bit k of byte b of a payload
DataBit(d, b, k) == k \in d[b]

\* C2: pack changes no bit of the 64 bytes outside the spans of the signal,
\* whatever the payload held; the bits it covers then extract to the value
\* packed, modulo 2^width; and a second signal packed afterwards into bits
\* the first does not cover leaves the value of the first as it was.
C2_PackFrameEffect ==
    /\ op \in {"pack", "repack"} =>
          LET covered == Covered(layout)
          IN  \A b \in 0 .. (DEFAULT_FRAME_PAYLOAD_LEN - 1), k \in U8 :
                  <<b, k>> \notin covered
                      => (DataBit(data, b, k) <=> DataBit(before, b, k))
    /\ op = "pack_extract" => result = LowBits(raw, width)
    /\ op = "pack_other_extract" => result = LowBits(raw, width)

\* a value that clears bits the payload held set was packed and read back,
\* and the payload held set bits outside the signal
C2_Witness ==
    /\ op = "pack_extract"
    /\ before # ZeroData
    /\ extract(layout, before) \ raw # {}
    /\ result = LowBits(raw, width)
    /\ \E b \in 0 .. (DEFAULT_FRAME_PAYLOAD_LEN - 1), k \in U8 :
          <<b, k>> \notin Covered(layout) /\ DataBit(data, b, k)

\* the DBC position (8 * byte + bit) of the j-th bit of a BigEndian signal,
\* counted from its most significant bit at start_bit: the bits of a byte
\* are walked from bit 7 down to bit 0, the bytes upward
BigEndianPos(start_bit, j) ==
    LET walked == (7 - (start_bit % 8)) + j
    IN  8 * ((start_bit \div 8) + (walked \div 8)) + (7 - (walked % 8))

\* the DBC position of bit i of the raw value of a signal
DbcPos(s, i) ==
    IF s.byte_order = "LittleEndian"
    THEN s.start_bit + i
    ELSE BigEndianPos(s.start_bit, s.signal_size - 1 - i)

\* C3: bit i of the value extract returns is the payload bit at the DBC
\* position of bit i of the signal (bit 8b+k is bit k of byte b), and the
\* value has no bit at or above the width.
C3_DbcBitNumbering ==
    op \in {"extract", "pack_extract", "repack_extract", "pack_other_extract"} =>
        /\ result = LowBits(result, width)
        /\ \A i \in 0 .. (width - 1) :
              LET p == DbcPos(signal, i)
              IN  i \in result <=> DataBit(data, p \div 8, p % 8)

\* a BigEndian signal that crosses two byte boundaries was extracted from
\* a payload that is neither zero nor all ones on it
C3_Witness ==
    /\ op = "extract"
    /\ signal.byte_order = "BigEndian"
    /\ Len(layout.segments) >= 3
    /\ signal.start_bit % 8 # 7
    /\ result # {}
    /\ result # LowBits(U64, width)

\* C5: every span lies inside one byte, the spans hold width bits in all,
\* and their value intervals tile 0 .. width-1 without overlap.
C5_SpanInvariants ==
    LET segs == layout.segments
        Interval(i) ==
            segs[i].value_shift .. (segs[i].value_shift + segs[i].num_bits - 1)
    IN  /\ \A i \in 1 .. Len(segs) :
              /\ segs[i].bit_offset \in 0 .. 7
              /\ segs[i].num_bits \in 1 .. 8
              /\ segs[i].bit_offset + segs[i].num_bits <= 8
        /\ \A i, j \in 1 .. Len(segs) : i # j => Interval(i) \cap Interval(j) = {}
        /\ UNION {Interval(i) : i \in 1 .. Len(segs)} = 0 .. (width - 1)
        /\ Cardinality(UNION {Interval(i) : i \in 1 .. Len(segs)}) = width

\* a layout of nine spans: a 64-bit signal that starts inside a byte
C5_Witness ==
    /\ op = "from_spec"
    /\ width = WordBits
    /\ Len(layout.segments) = 9

----------------------------------------------------------------------------
(* The signal codec: a raw value is decoded to a physical value, a         *)
(* physical value is encoded to a raw value.                               *)

InitCodec ==
    /\ op = "from_spec"
    /\ signal \in CodecSignals
    /\ layout = from_spec(signal)
    /\ data \in CodecBuffers
    /\ before = data
    /\ raw = {}
    /\ result = {}
    /\ other = NoSignal
    /\ physical = F64FromInt(0)
    /\ message = NoMessage
    /\ message_id = 0
    /\ pairs = <<>>
    /\ frame = CanFrameDefault
    /\ decoded = <<>>
    /\ outcome = "Ok"
    /\ BuilderIdle
    /\ LogIdle

\* layout.decode(&frame, spec); result is its local `raw`
Decode ==
    /\ op = "from_spec"
    /\ result' = extract(layout, data)
    /\ physical' = decode(layout, data, signal)
    /\ op' = "decode"
    /\ UNCHANGED <<signal, layout, data, before, raw, other, messageVars,
                   builderVars, logVars>>

\* compute_raw_value(physical, spec)
ComputeRaw ==
    /\ op = "from_spec"
    /\ \E p \in PhysicalSamples(signal) :
        /\ physical' = p
        /\ result' = compute_raw_value(p, signal)
    /\ op' = "compute_raw_value"
    /\ UNCHANGED <<signal, layout, data, before, raw, other, messageVars,
                   builderVars, logVars>>

NextCodec == Decode \/ ComputeRaw

SpecCodec == InitCodec /\ [][NextCodec]_vars

----------------------------------------------------------------------------
(* Claims about the signal codec *)

\* 2^w - x for a bit vector x below 2^w: (2^w - 1 - x) + 1
TwoPowMinus(x, w) == AddPow2(LowMask(w) \ x, 0)

\* C8: decode reads the raw value of a Signed signal as two's complement of
\* width bits (raw when bit width-1 is 0, raw - 2^width when it is 1, also
\* for width 64), that of an Unsigned signal as it is, and the physical value
\* is that integer (as an f64) times factor plus offset.
C8_TwosComplementDecode ==
    op = "decode" =>
        LET negative == signal.value_type = "Signed" /\ (width - 1) \in result
        IN  /\ width < 30 =>
                F64ToInt(physical)
                  = (IF negative THEN NatOf(result) - 2^width ELSE NatOf(result))
                        * signal.factor + signal.offset
            /\ (signal.factor = 1 /\ signal.offset = 0) =>
                physical = F64(negative,
                               RoundToF64(IF negative
                                          THEN TwoPowMinus(result, width)
                                          ELSE result))

\* a negative value of a 12-bit Signed signal was decoded and scaled
C8_Witness ==
    /\ op = "decode"
    /\ signal.value_type = "Signed"
    /\ width = 12
    /\ (width - 1) \in result
    /\ result # LowMask(width)
    /\ signal.factor = 2
    /\ physical.neg

\* the 64-bit two's complement of an integer between -2^29 and 2^29
IntBits(n) == {i \in U64 : IF i < 29 THEN (n % 2^(i + 1)) >= 2^i ELSE n < 0}

\* round((physical - offset) / factor) of a small physical value
RoundedQuotient == RoundHalfAway(F64ToInt(physical) - signal.offset, signal.factor)

SmallPhysical == \A i \in physical.mag : i < 29

\* C9 as claimed: the result is the low width bits of the integer
\* round((physical - offset) / factor), for Signed and Unsigned alike, a
\* negative value of an Unsigned signal included.
C9_LowBitsOfRounded ==
    (op = "compute_raw_value" /\ SmallPhysical) =>
        result = LowBits(IntBits(RoundedQuotient), width)

\* the value the saturating casts of Rust give +-2^k: `as i64` stops at
\* i64::MIN and i64::MAX, `as u64` at 0 and u64::MAX
SaturatedPow2(neg, k, value_type) ==
    IF value_type = "Signed"
    THEN IF neg THEN (IF k >= WordBits - 1 THEN {WordBits - 1}
                      ELSE {i \in U64 : i >= k})
         ELSE (IF k >= WordBits - 1 THEN U64 \ {WordBits - 1} ELSE {k})
    ELSE IF neg THEN {}
         ELSE (IF k >= WordBits THEN U64 ELSE {k})

\* C9, amended: the result is the low width bits of round((physical -
\* offset) / factor) converted by the saturating cast of Rust, to i64 for a
\* Signed and to u64 for an Unsigned signal: it has no bit at or above the
\* width, a negative integer of a Signed signal gives its two's complement
\* modulo 2^width, a value out of the range of the width is cut to its low
\* width bits, a negative value of an Unsigned signal gives 0, and a value
\* beyond the range of the cast gives the low width bits of the end of that
\* range.
C9_LowBitsOfSaturated ==
    op = "compute_raw_value" =>
        /\ result = LowBits(result, width)
        /\ SmallPhysical =>
              result = IF signal.value_type = "Unsigned" /\ RoundedQuotient < 0
                       THEN {}
                       ELSE LowBits(IntBits(RoundedQuotient), width)
        /\ ~SmallPhysical =>
              \E k \in BigExponents :
                  /\ physical.mag = {k}
                  /\ result = LowBits(SaturatedPow2(physical.neg, k,
                                                    signal.value_type), width)

\* a negative quotient with a half was rounded away from zero and cut to
\* the 3 bits of a Signed signal, in range
C9_Witness ==
    /\ op = "compute_raw_value"
    /\ signal.value_type = "Signed"
    /\ width = 3
    /\ signal.factor = 2
    /\ (F64ToInt(physical) - signal.offset) % 2 = 1
    /\ RoundedQuotient = -3
    /\ result = {0, 2}

----------------------------------------------------------------------------
(* The message codec: a payload is decoded, the values are encoded again   *)
(* and decoded again; sample pairs are encoded and decoded.                *)

InitMessage ==
    /\ op = "init"
    /\ message \in Messages
    /\ data \in MessageBuffers
    /\ message_id = 0
    /\ pairs = <<>>
    /\ frame = [CanFrameDefault EXCEPT !.data = data]
    /\ decoded = <<>>
    /\ outcome = "Ok"
    /\ BuilderIdle
    /\ LogIdle
    /\ signal = NoSignal
    /\ layout = from_spec(NoSignal)
    /\ before = data
    /\ raw = {}
    /\ result = {}
    /\ other = NoSignal
    /\ physical = F64FromInt(0)

layoutVars == <<signal, layout, data, before, raw, result, other, physical>>

\* decode_message(&frame, message): of the frame read, or of the frame
\* encode_message returned
DecodeMessage ==
    /\ op \in {"init", "reencode", "encode_message"}
    /\ outcome = "Ok"
    /\ decoded' = decode_message(frame, message).values
    /\ op' = CASE op = "init" -> "decode_message"
               [] op = "reencode" -> "redecode"
               [] op = "encode_message" -> "encode_decode"
    /\ UNCHANGED <<message, message_id, pairs, frame, outcome>>
    /\ UNCHANGED <<layoutVars, builderVars, logVars>>

\* the result of encode_message is taken over
Encoded(r) ==
    /\ outcome' = r.outcome
    /\ error' = IF r.outcome = "Ok" THEN "" ELSE r.name
    /\ frame' = IF r.outcome = "Ok" THEN r.frame ELSE NoFrame

\* encode_message(message, pairs, id) with the decoded value of every signal
Reencode ==
    /\ op = "decode_message"
    /\ pairs' = [i \in 1 .. Len(message.signals) |->
                    Pair(message.signals[i].name, decoded[i])]
    /\ \E id \in MessageIds :
        /\ message_id' = id
        /\ Encoded(encode_message(message, pairs', id))
    /\ op' = "reencode"
    /\ UNCHANGED <<message, decoded, builder>>
    /\ UNCHANGED <<layoutVars, logVars>>

\* encode_message(message, pairs, id) with sample pairs
EncodeMessage ==
    /\ op = "init"
    /\ data = ZeroData
    /\ \E ps \in PairLists(message), id \in MessageIds :
        /\ pairs' = ps
        /\ message_id' = id
        /\ Encoded(encode_message(message, ps, id))
    /\ op' = "encode_message"
    /\ UNCHANGED <<message, decoded, builder>>
    /\ UNCHANGED <<layoutVars, logVars>>

NextMessage == DecodeMessage \/ Reencode \/ EncodeMessage

SpecMessage == InitMessage /\ [][NextMessage]_vars

----------------------------------------------------------------------------
(* Claims about the message codec *)

\* the signal of the message a pair names
PairSpec(i) == message.signals[get_signal_spec(message, pairs[i].name)]

\* n lies in the range of the width and the value type of a signal
InRange(n, spec) ==
    IF spec.signal_size >= 30
    THEN spec.value_type = "Signed" \/ n >= 0
    ELSE IF spec.value_type = "Signed"
    THEN -(2^(spec.signal_size - 1)) <= n /\ n < 2^(spec.signal_size - 1)
    ELSE 0 <= n /\ n < 2^spec.signal_size

\* C4: with integer factors, the values decoded from a payload, encoded and
\* decoded again are the values decoded first; and a value n * factor +
\* offset with n in the range of the signal, encoded alone and decoded, is
\* that value.
C4_DecodeEncodeDecode ==
    /\ op = "redecode" =>
          \A i \in 1 .. Len(message.signals) : decoded[i] = pairs[i].value
    /\ (op = "encode_decode" /\ Len(pairs) = 1) =>
          LET spec == PairSpec(1)
              v == F64ToInt(pairs[1].value)
          IN  ((v - spec.offset) % spec.factor = 0
                  /\ InRange((v - spec.offset) \div spec.factor, spec))
              => decoded[get_signal_spec(message, pairs[1].name)] = pairs[1].value

\* C6: no span of a signal packed into a frame lies at or beyond the length
\* of the frame.
C6_SpansInsideFrame ==
    op \in {"encode_message", "reencode"} =>
        \A i \in 1 .. Len(pairs) :
            LET l == from_spec(PairSpec(i))
            IN  \A j \in 1 .. Len(l.segments) :
                    l.segments[j].byte_index < frame.len

\* the payload bits the signals named in the pairs cover
NamedBits == UNION {Covered(from_spec(PairSpec(i))) : i \in 1 .. Len(pairs)}

\* every payload bit no named signal covers is zero
UnnamedBitsZero ==
    \A b \in 0 .. (DEFAULT_FRAME_PAYLOAD_LEN - 1), k \in U8 :
        DataBit(frame.data, b, k) => <<b, k>> \in NamedBits

\* pair i extracts to the raw value computed from its physical value
PairExtracts(i) ==
    extract(from_spec(PairSpec(i)), frame.data)
        = compute_raw_value(pairs[i].value, PairSpec(i))

\* C10 as claimed: the frame has the id given and the declared size of the
\* message as its length, every named signal extracts to the raw value of
\* its physical value, and every bit of no named signal is zero.
C10_EncodedFrame ==
    (op = "encode_message" /\ outcome = "Ok") =>
        /\ frame.id = message_id
        /\ frame.len = message.message_size
        /\ \A i \in 1 .. Len(pairs) : PairExtracts(i)
        /\ UnnamedBitsZero

\* no pair after pair i names a signal that shares a bit with the signal of
\* pair i (the same signal named again included)
NotOverwritten(i) ==
    \A j \in (i + 1) .. Len(pairs) :
        Covered(from_spec(PairSpec(j))) \cap Covered(from_spec(PairSpec(i))) = {}

\* C10, amended: the frame has the id given, its length is the declared size
\* of the message (for a size below 256; the size modulo 256 in general), a
\* named signal extracts to the raw value of its physical value when no pair
\* after it names a signal that shares a bit position with it, and every bit
\* of no named signal is zero.
C10_EncodedFrameLastWins ==
    (op = "encode_message" /\ outcome = "Ok") =>
        /\ frame.id = message_id
        /\ message.message_size < 256 => frame.len = message.message_size
        /\ frame.len = message.message_size % 256
        /\ \A i \in 1 .. Len(pairs) : NotOverwritten(i) => PairExtracts(i)
        /\ UnnamedBitsZero

\* two signals that share no bit were both named, with values that are not
\* zero, in a message of two bytes
C10_Witness ==
    /\ op = "encode_message"
    /\ outcome = "Ok"
    /\ Len(pairs) = 2
    /\ pairs[1].name # pairs[2].name
    /\ NotOverwritten(1)
    /\ extract(from_spec(PairSpec(1)), frame.data) # {}
    /\ extract(from_spec(PairSpec(2)), frame.data) # {}
    /\ frame.len = 2
    /\ frame.id = 496

----------------------------------------------------------------------------
(* Layout construction, for signals valid or not *)

InitSchema ==
    /\ op = "init"
    /\ signal \in SchemaSignals
    /\ layout = from_spec(NoSignal)
    /\ outcome = "Ok"
    /\ data = ZeroData
    /\ before = ZeroData
    /\ raw = {}
    /\ result = {}
    /\ other = NoSignal
    /\ physical = F64FromInt(0)
    /\ message = NoMessage
    /\ message_id = 0
    /\ pairs = <<>>
    /\ frame = CanFrameDefault
    /\ decoded = <<>>
    /\ BuilderIdle
    /\ LogIdle

\* SignalLayout::from_spec(signal): it returns Self, it has no error to return
FromSpec ==
    /\ op = "init"
    /\ layout' = from_spec(signal)
    /\ outcome' = "Ok"
    /\ op' = "from_spec"
    /\ UNCHANGED <<signal, data, before, raw, result, other, physical,
                   message, message_id, pairs, frame, decoded>>
    /\ UNCHANGED <<builderVars, logVars>>

NextSchema == FromSpec

SpecSchema == InitSchema /\ [][NextSchema]_vars

\* C7: from_spec fails with a schema error, and gives no layout, when the
\* width is 0 or above 64 or a span lies at a byte index of 64 or more, and
\* succeeds otherwise.
C7_SchemaErrors ==
    op = "from_spec" =>
        LET l == from_spec(signal)
            invalid ==
                \/ signal.signal_size = 0
                \/ signal.signal_size > WordBits
                \/ \E i \in 1 .. Len(l.segments) :
                       l.segments[i].byte_index >= DEFAULT_FRAME_PAYLOAD_LEN
        IN  IF invalid
            THEN outcome = "SchemaError" /\ layout = from_spec(NoSignal)
            ELSE outcome = "Ok" /\ layout = l

----------------------------------------------------------------------------
(* The frame builder: new, then set, timestamp and channel in any order,   *)
(* then build; and encode_message with names the message may not have.     *)

\* the most calls of set on one builder
MaxSets == 2

\* a name no sample message has
UnknownName == "X"

\* the sample messages of the builder: two signals each, the first one at
\* start bit 7
BuilderMessages ==
    {m \in Messages : /\ Len(m.signals) = 2
                      /\ m.signals[1].start_bit = 7
                      /\ m.signals[1].signal_size \in {8, 54}}

BuilderNames(message_spec) == SignalNames(message_spec) \cup {UnknownName}

\* pair lists of one or two names, known or not
BuilderPairLists(message_spec) ==
    {<<Pair(n, v)>> : n \in BuilderNames(message_spec), v \in PairValues}
    \cup {<<Pair(n1, v), Pair(n2, v)>> :
            n1 \in BuilderNames(message_spec),
            n2 \in BuilderNames(message_spec), v \in PairValues}

BuilderTimestamps == {Time(FALSE, <<1, 2>>, 500000, MicrosPerSecond)}
BuilderChannels == {<<"v", "c", "a", "n", "0">>}

InitBuilder ==
    /\ op = "init"
    /\ message \in BuilderMessages
    /\ message_id = 0
    /\ pairs = <<>>
    /\ frame = NoFrame
    /\ decoded = <<>>
    /\ outcome = "Ok"
    /\ BuilderIdle
    /\ LogIdle
    /\ signal = NoSignal
    /\ layout = from_spec(NoSignal)
    /\ data = ZeroData
    /\ before = ZeroData
    /\ raw = {}
    /\ result = {}
    /\ other = NoSignal
    /\ physical = F64FromInt(0)

\* let builder = CanFrameBuilder::new(message, id)
BuilderNew ==
    /\ op = "init"
    /\ \E id \in MessageIds :
        /\ message_id' = id
        /\ builder' = builder_new(message, id)
    /\ op' = "new"
    /\ UNCHANGED <<message, pairs, frame, decoded, outcome, error>>
    /\ UNCHANGED <<layoutVars, logVars>>

\* let builder = builder.set(name, value)?: the call takes the builder, and
\* gives it back in Ok only
BuilderSet ==
    /\ builder # NoBuilder
    /\ Len(pairs) < MaxSets
    /\ \E n \in BuilderNames(message), v \in PairValues :
        LET r == builder_set(builder, n, v)
        IN  /\ pairs' = Append(pairs, Pair(n, v))
            /\ outcome' = r.outcome
            /\ error' = IF r.outcome = "Ok" THEN "" ELSE r.name
            /\ builder' = IF r.outcome = "Ok" THEN r.builder ELSE NoBuilder
    /\ op' = "set"
    /\ UNCHANGED <<message, message_id, frame, decoded>>
    /\ UNCHANGED <<layoutVars, logVars>>

\* let builder = builder.timestamp(ts)
BuilderTimestamp ==
    /\ builder # NoBuilder
    /\ builder.frame.timestamp = TimeZero
    /\ \E ts \in BuilderTimestamps : builder' = builder_timestamp(builder, ts)
    /\ op' = "timestamp"
    /\ UNCHANGED <<message, message_id, pairs, frame, decoded, outcome, error>>
    /\ UNCHANGED <<layoutVars, logVars>>

\* let builder = builder.channel(ch)
BuilderChannel ==
    /\ builder # NoBuilder
    /\ builder.frame.channel = <<>>
    /\ \E ch \in BuilderChannels : builder' = builder_channel(builder, ch)
    /\ op' = "channel"
    /\ UNCHANGED <<message, message_id, pairs, frame, decoded, outcome, error>>
    /\ UNCHANGED <<layoutVars, logVars>>

\* let frame = builder.build()
BuilderBuild ==
    /\ builder # NoBuilder
    /\ frame' = builder_build(builder)
    /\ builder' = NoBuilder
    /\ op' = "build"
    /\ UNCHANGED <<message, message_id, pairs, decoded, outcome, error>>
    /\ UNCHANGED <<layoutVars, logVars>>

\* encode_message(message, pairs, id) with names known or not
EncodeNamed ==
    /\ op = "init"
    /\ \E ps \in BuilderPairLists(message), id \in MessageIds :
        /\ pairs' = ps
        /\ message_id' = id
        /\ Encoded(encode_message(message, ps, id))
    /\ op' = "encode_message"
    /\ UNCHANGED <<message, decoded, builder>>
    /\ UNCHANGED <<layoutVars, logVars>>

NextBuilder ==
    \/ BuilderNew
    \/ BuilderSet
    \/ BuilderTimestamp
    \/ BuilderChannel
    \/ BuilderBuild
    \/ EncodeNamed

SpecBuilder == InitBuilder /\ [][NextBuilder]_vars

----------------------------------------------------------------------------
(* Claims about the frame builder *)

\* the pairs whose names the message does not have
UnknownPairs ==
    {i \in 1 .. Len(pairs) : get_signal_spec(message, pairs[i].name) = 0}

\* C11: when a name handed to encode_message or to CanFrameBuilder::set is
\* not a signal of the message, the call returns the unknown-signal error
\* with that name and no frame: encode_message returns no frame, and after
\* the failing set the caller holds no builder.
C11_UnknownSignalError ==
    /\ (op = "encode_message" /\ UnknownPairs # {}) =>
          /\ outcome = "UnknownSignal"
          /\ \E i \in UnknownPairs :
                /\ \A j \in UnknownPairs : i <= j
                /\ error = pairs[i].name
          /\ frame = NoFrame
    /\ (op = "set" /\ UnknownPairs # {}) =>
          /\ outcome = "UnknownSignal"
          /\ error = pairs[Len(pairs)].name
          /\ builder = NoBuilder
          /\ frame = NoFrame
    /\ (op \in {"encode_message", "set"} /\ UnknownPairs = {}) =>
          outcome = "Ok"

\* a set with an unknown name failed after a set that had packed a signal
C11_Witness ==
    /\ op = "set"
    /\ Len(pairs) = 2
    /\ UnknownPairs = {2}
    /\ outcome = "UnknownSignal"
    /\ error = UnknownName

\* C12: the frame a builder builds after new and set calls with known names
\* has the id, the length and the payload of the frame encode_message
\* returns for the same pairs in the same order; timestamp() and channel()
\* change the timestamp and the channel of the frame and nothing else.
C12_BuilderMatchesEncode ==
    [][/\ op' = "build" =>
            LET r == encode_message(message, pairs, message_id)
            IN  /\ r.outcome = "Ok"
                /\ frame'.id = r.frame.id
                /\ frame'.len = r.frame.len
                /\ frame'.data = r.frame.data
                /\ frame' = builder.frame
       /\ op' = "timestamp" =>
            /\ builder'.frame.timestamp \in BuilderTimestamps
            /\ builder' = [builder EXCEPT
                              !.frame.timestamp = builder'.frame.timestamp]
       /\ op' = "channel" =>
            /\ builder'.frame.channel \in BuilderChannels
            /\ builder' = [builder EXCEPT
                              !.frame.channel = builder'.frame.channel]
      ]_vars

\* a frame was built after two set calls, a timestamp and a channel
C12_Witness ==
    /\ op = "build"
    /\ Len(pairs) = 2
    /\ pairs[1].name # pairs[2].name
    /\ frame.data # ZeroData
    /\ frame.timestamp \in BuilderTimestamps
    /\ frame.channel \in BuilderChannels
    /\ frame.id = 496

----------------------------------------------------------------------------
(* The candump line parser and the line writer: a line is parsed and the   *)
(* frame written again; a frame is written and the line parsed again.      *)

InitCandump ==
    /\ \/ /\ op = "line"
          /\ line \in CandumpLines
          /\ origin = NoFrame
       \/ /\ op = "frame"
          /\ line = <<>>
          /\ origin \in SampleFrames
    /\ written = <<>>
    /\ ReaderIdle
    /\ frame = NoFrame
    /\ outcome = "Ok"
    /\ BuilderIdle
    /\ WriterIdle
    /\ message = NoMessage
    /\ message_id = 0
    /\ pairs = <<>>
    /\ decoded = <<>>
    /\ signal = NoSignal
    /\ layout = from_spec(NoSignal)
    /\ data = ZeroData
    /\ before = ZeroData
    /\ raw = {}
    /\ result = {}
    /\ other = NoSignal
    /\ physical = F64FromInt(0)

codecVars == <<layoutVars, message, message_id, pairs, decoded, builderVars>>

\* the result of a line parser is taken over
Parsed(r) ==
    /\ outcome' = r.outcome
    /\ frame' = IF r.outcome = "Ok" THEN r.frame ELSE NoFrame

\* the result of the line writer is taken over
Written(r) ==
    /\ outcome' = r.outcome
    /\ written' = IF r.outcome = "Ok" THEN r.text ELSE <<>>

\* parse_candump_line(line)
ParseCandumpLine ==
    /\ op = "line"
    /\ Parsed(parse_candump_line(line))
    /\ op' = "parse"
    /\ UNCHANGED <<line, written, origin, readerVars>>
    /\ UNCHANGED <<codecVars, writerVars>>

\* frame_to_candump_line(&frame) of the frame parsed
WriteParsed ==
    /\ op = "parse"
    /\ outcome = "Ok"
    /\ Written(frame_to_candump_line(frame))
    /\ op' = "parse_write"
    /\ UNCHANGED <<line, frame, origin, readerVars>>
    /\ UNCHANGED <<codecVars, writerVars>>

\* frame_to_candump_line(&origin)
WriteFrame ==
    /\ op = "frame"
    /\ Written(frame_to_candump_line(origin))
    /\ op' = "write"
    /\ UNCHANGED <<line, frame, origin, readerVars>>
    /\ UNCHANGED <<codecVars, writerVars>>

\* parse_candump_line(written)
ParseWritten ==
    /\ op = "write"
    /\ outcome = "Ok"
    /\ Parsed(parse_candump_line(written))
    /\ op' = "write_parse"
    /\ UNCHANGED <<line, written, origin, readerVars>>
    /\ UNCHANGED <<codecVars, writerVars>>

NextCandump == ParseCandumpLine \/ WriteParsed \/ WriteFrame \/ ParseWritten

SpecCandump == InitCandump /\ [][NextCandump]_vars

----------------------------------------------------------------------------
(* Claims about the candump parser and the writer *)

\* the text parsed last
ParsedText == IF op = "write_parse" THEN written ELSE line

\* a candump line by its format: `(seconds) channel id#data` for a
\* classical frame, `(seconds) channel id##<flag>data` for an FD frame
MarkAt(t) == FindText(t, <<"#">>)
IdText(t) == SubSeq(t, 1, MarkAt(t) - 1)
IsFdText(t) == MarkAt(t) < Len(t) /\ t[MarkAt(t) + 1] = "#"
DataText(t) == SubSeq(t, MarkAt(t) + (IF IsFdText(t) THEN 3 ELSE 1), Len(t))

IsHexText(text) == \A i \in 1 .. Len(text) : DigitVal(text[i]) >= 0

IsUpperHexText(text) ==
    \A i \in 1 .. Len(text) : \E v \in 1 .. 16 : UpperHexDigits[v] = text[i]

\* `(digits)` or `(digits.digits)`, with at most 6 digits after the point
IsSecondsText(t) ==
    /\ Len(t) >= 3
    /\ t[1] = "("
    /\ t[Len(t)] = ")"
    /\ LET body == SubSeq(t, 2, Len(t) - 1)
           dot == FindText(body, <<".">>)
           int_text == IF dot = 0 THEN body ELSE SubSeq(body, 1, dot - 1)
           frac_text == IF dot = 0 THEN <<>>
                        ELSE SubSeq(body, dot + 1, Len(body))
       IN  /\ int_text # <<>>
           /\ IsDecimal(int_text)
           /\ IsDecimal(frac_text)
           /\ Len(frac_text) <= 6

WellFormedCandump(text) ==
    LET tokens == split_whitespace(text)
    IN  /\ Len(tokens) >= 3
        /\ IsSecondsText(tokens[1])
        /\ LET t == tokens[3]
           IN  /\ MarkAt(t) > 1
               /\ IsHexText(IdText(t))
               /\ Len(IdText(t)) <= 8
               /\ IsFdText(t) =>
                     /\ Len(t) >= MarkAt(t) + 2
                     /\ DigitVal(t[MarkAt(t) + 2]) >= 0
               /\ IsHexText(DataText(t))
               /\ Len(DataText(t)) % 2 = 0
               /\ Len(DataText(t)) <= 2 * DEFAULT_FRAME_PAYLOAD_LEN

\* C15: parse_candump_line of a well-formed line gives a frame whose length
\* is half the number of data digits, whose id is the number the id digits
\* write in hex, whose payload byte i is the i-th pair of data digits below
\* the length and zero from there on, that is received, and that is FD
\* exactly when the mark is ##; the flag digit after ## is no data.
C15_CandumpFields ==
    (op \in {"parse", "write_parse"} /\ WellFormedCandump(ParsedText)) =>
        LET t == split_whitespace(ParsedText)[3]
            d == DataText(t)
        IN  /\ outcome = "Ok"
            /\ frame.len = Len(d) \div 2
            /\ frame.id = DigitsValue(IdText(t), 16)
            /\ \A i \in 0 .. (DEFAULT_FRAME_PAYLOAD_LEN - 1) :
                  frame.data[i] =
                     IF i < frame.len
                     THEN BitsOf(16 * DigitVal(d[2 * i + 1])
                                 + DigitVal(d[2 * i + 2]))
                     ELSE {}
            /\ frame.is_rx
            /\ frame.is_fd = IsFdText(t)

\* an FD line of 64 bytes with a flag digit was parsed
C15_Witness ==
    /\ op = "parse"
    /\ WellFormedCandump(line)
    /\ IsFdText(split_whitespace(line)[3])
    /\ outcome = "Ok"
    /\ frame.len = DEFAULT_FRAME_PAYLOAD_LEN
    /\ frame.data[DEFAULT_FRAME_PAYLOAD_LEN - 1] # {}

\* the form C13 asks of a line: upper case hex, an id of 3 digits or more,
\* 6 digits after the point of the timestamp, the FD flag 0
UpperHexLine(text) ==
    LET tokens == split_whitespace(text)
        t == tokens[3]
        ts == tokens[1]
        dot == FindText(ts, <<".">>)
    IN  /\ IsUpperHexText(IdText(t))
        /\ IsUpperHexText(DataText(t))
        /\ Len(IdText(t)) >= 3
        /\ dot > 0
        /\ Len(ts) = dot + 7
        /\ IsDecimal(SubSeq(ts, dot + 1, dot + 6))
        /\ IsFdText(t) => t[MarkAt(t) + 2] = "0"

\* C13 as claimed: a line that parses to a frame and has upper case hex, an
\* id of at least 3 digits, 6 fraction digits and the FD flag 0 is written
\* back as it was.
C13_LineRoundTrip ==
    (op = "parse_write" /\ UpperHexLine(line)) =>
        /\ outcome = "Ok"
        /\ written = line

\* the form in which frame_to_candump_line writes a line: three fields with
\* one space between them and nothing around them; `(seconds.micros)` with
\* the seconds in decimal without a sign or a needless leading zero and
\* below 2^33, and 6 digits of microseconds; the id in upper case hex, of 3
\* digits, or of more without a leading zero; the FD flag 0; the payload in
\* upper case hex
WriterForm(text) ==
    LET fields == split(text, <<" ">>)
        ts == fields[1]
        t == fields[3]
        dot == FindText(ts, <<".">>)
        seconds == SubSeq(ts, 2, dot - 1)
    IN  /\ Len(fields) = 3
        /\ \A i \in 1 .. Len(text) : text[i] \notin {"\t", "\n", "\r"}
        /\ fields[2] # <<>>
        /\ Len(ts) >= 10
        /\ ts[1] = "("
        /\ ts[Len(ts)] = ")"
        /\ dot > 2
        /\ Len(ts) = dot + 7
        /\ IsDecimal(seconds)
        /\ IsDecimal(SubSeq(ts, dot + 1, dot + 6))
        /\ (Len(seconds) = 1 \/ seconds[1] # "0")
        /\ ~DigitsGE([i \in 1 .. Len(seconds) |-> DigitVal(seconds[i])],
                     TwoPow33)
        /\ MarkAt(t) > 0
        /\ IsUpperHexText(IdText(t))
        /\ Len(IdText(t)) >= 3
        /\ (Len(IdText(t)) = 3 \/ IdText(t)[1] # "0")
        /\ IsFdText(t) => (Len(t) >= MarkAt(t) + 2 /\ t[MarkAt(t) + 2] = "0")
        /\ IsUpperHexText(DataText(t))

\* C13, amended: a line that parses to a frame and is in the form the
\* writer writes is written back as it was.
C13_WriterFormRoundTrip ==
    (op = "parse_write" /\ WriterForm(line)) =>
        /\ outcome = "Ok"
        /\ written = line

\* an FD line of 64 bytes with an id of 8 digits went through parser and
\* writer
C13_Witness ==
    /\ op = "parse_write"
    /\ WriterForm(line)
    /\ frame.is_fd
    /\ frame.len = DEFAULT_FRAME_PAYLOAD_LEN
    /\ frame.id > 2047
    /\ written = line

\* the frame invariant, and a channel that is one token
FrameInvariant(f) ==
    /\ f.len <= (IF f.is_fd THEN DEFAULT_FRAME_PAYLOAD_LEN ELSE 8)
    /\ \A i \in 0 .. (DEFAULT_FRAME_PAYLOAD_LEN - 1) : i >= f.len => f.data[i] = {}

OneToken(text) ==
    /\ text # <<>>
    /\ \A i \in 1 .. Len(text) : ~IsWhitespace(text[i])

\* C14 as claimed: a frame that satisfies the frame invariant and has a
\* channel of one token and a timestamp of whole microseconds is written to
\* a line that parses to an equal frame.
C14_FrameRoundTrip ==
    (op \in {"write", "write_parse"} /\ FrameInvariant(origin) /\ OneToken(origin.channel)) =>
        /\ outcome = "Ok"
        /\ op = "write_parse" => frame = origin

\* C14, amended: a received frame that satisfies the frame invariant and has
\* a channel of one token and a timestamp of whole microseconds is written
\* to a line that parses to an equal frame.
C14_ReceivedFrameRoundTrip ==
    (op \in {"write", "write_parse"} /\ FrameInvariant(origin) /\ OneToken(origin.channel) /\ origin.is_rx) =>
        /\ outcome = "Ok"
        /\ op = "write_parse" => frame = origin

\* a received FD frame of 64 bytes was written and parsed again
C14_Witness ==
    /\ op = "write_parse"
    /\ FrameInvariant(origin)
    /\ OneToken(origin.channel)
    /\ origin.is_rx
    /\ origin.is_fd
    /\ origin.len = DEFAULT_FRAME_PAYLOAD_LEN
    /\ origin.timestamp.den # MicrosPerSecond
    /\ frame = origin

----------------------------------------------------------------------------
(* parse_ascii_line *)

\* the tokens of a line, a space before each
RECURSIVE JoinTokens(_)
JoinTokens(tokens) ==
    IF tokens = <<>> THEN <<>>
    ELSE <<" ">> \o Head(tokens) \o JoinTokens(Tail(tokens))

\* n data tokens of two decimal digits each, a space before each
DataTokens(n) ==
    [k \in 1 .. (3 * n) |->
        LET value == (7 * ((k - 1) \div 3) + 1) % 100
        IN  CASE k % 3 = 1 -> " "
              [] k % 3 = 2 -> UpperHexDigits[(value \div 10) + 1]
              [] OTHER -> UpperHexDigits[(value % 10) + 1]]

AsciiTimestamps == {<<"1", ".", "6", "0", "1", "1", "5", "7">>}
AsciiChannels == {<<"1">>}
AsciiIds == {<<"1", "A", "0">>, <<"1", "0", "0">>, <<"1", "F", "3", "3", "4", "4", "5", "5", "x">>}
AsciiDirections == {<<"R", "x">>, <<"T", "x">>}

\* DLC tokens: those of CAN and CAN FD, and larger ones
AsciiLens == {<<"0">>, <<"2">>, <<"8">>, <<"9">>, <<"6", "4">>, <<"6", "5">>, <<"2", "0", "0">>}

\* how many data tokens follow the DLC: none, fewer than 9, 9, more than 64
AsciiCounts == {0, 2, 9, 66}

\* Length = 225910 BitCount = 117 ID = 383
ClassicalTrailer ==
    <<<<"L", "e", "n", "g", "t", "h">>,
      <<"=">>,
      <<"2", "2", "5", "9", "1", "0">>,
      <<"B", "i", "t", "C", "o", "u", "n", "t">>,
      <<"=">>,
      <<"1", "1", "7">>,
      <<"I", "D">>,
      <<"=">>,
      <<"3", "8", "3">>>>

AsciiTrailers(trailer) == {<<>>, JoinTokens(trailer)}

\* <Time> <Channel> <ID> <Dir> r
RemoteLines ==
    {JoinTokens(<<ts, ch, id, dir, <<"r">>>>) :
        ts \in AsciiTimestamps, ch \in AsciiChannels, id \in AsciiIds,
        dir \in AsciiDirections}

\* <Time> <Channel> <ID> <Dir> d <DLC> <D0> ... <MessageFlags>
ClassicalLines ==
    {JoinTokens(<<ts, ch, id, dir, <<"d">>, len>>) \o DataTokens(n) \o trailer :
        ts \in AsciiTimestamps, ch \in AsciiChannels, id \in AsciiIds,
        dir \in AsciiDirections, len \in AsciiLens, n \in AsciiCounts,
        trailer \in AsciiTrailers(ClassicalTrailer)}

\* 130000 130 1000 0 0 0 0 0
FdTrailer ==
    <<<<"1", "3", "0", "0", "0", "0">>,
      <<"1", "3", "0">>,
      <<"1", "0", "0", "0">>,
      <<"0">>,
      <<"0">>,
      <<"0">>,
      <<"0">>,
      <<"0">>>>

\* <Time> CANFD <Channel> <Dir> <ID> <BRS> <ESI> <DLC> <DataLength> <D0> ...
FdLines ==
    {JoinTokens(<<ts, <<"C", "A", "N", "F", "D">>, ch, dir, id,
                  <<"0">>, <<"0">>, <<"8">>, len>>) \o DataTokens(n) \o trailer :
        ts \in AsciiTimestamps, ch \in AsciiChannels,
        id \in {<<"1", "0", "0">>, <<"1", "F", "3", "3", "4", "4", "5", "5", "x">>},
        dir \in AsciiDirections, len \in AsciiLens, n \in AsciiCounts,
        trailer \in AsciiTrailers(FdTrailer)}

\* the header lines of a log with the base named
HeaderLines(base_name) ==
    <<JoinTokens(<<<<"d", "a", "t", "e">>,
      <<"F", "r", "i">>,
      <<"J", "a", "n">>,
      <<"2", "3">>,
      <<"2", "3", ":", "0", "4", ":", "0", "2">>,
      <<"2", "0", "2", "6">>>>),
      JoinTokens(<<<<"b", "a", "s", "e">>, base_name>> \o <<<<"t", "i", "m", "e", "s", "t", "a", "m", "p", "s">>,
      <<"a", "b", "s", "o", "l", "u", "t", "e">>>>)>>

\* lines that are no CAN frames: header lines, a trigger block, events, an
\* FD line that ends before the data length, a blank line
OtherLines ==
    {HeaderLines(<<"h", "e", "x">>)[1], HeaderLines(<<"h", "e", "x">>)[2],
     JoinTokens(<<<<"B", "e", "g", "i", "n">>,
      <<"T", "r", "i", "g", "g", "e", "r", "b", "l", "o", "c", "k">>,
      <<"F", "r", "i">>,
      <<"J", "a", "n">>,
      <<"2", "3">>,
      <<"2", "3", ":", "0", "4", ":", "0", "2">>,
      <<"2", "0", "2", "6">>>>),
     JoinTokens(<<<<"0", ".", "0", "0", "0", "0", "0", "0">>,
      <<"S", "t", "a", "r", "t">>,
      <<"o", "f">>,
      <<"m", "e", "a", "s", "u", "r", "e", "m", "e", "n", "t">>>>),
     JoinTokens(<<<<"1", ".", "6", "0", "1", "1", "5", "7">>,
      <<"1">>,
      <<"E", "r", "r", "o", "r", "F", "r", "a", "m", "e">>>>),
     JoinTokens(<<<<"1", ".", "6", "0", "1", "1", "5", "7">>,
      <<"C", "A", "N">>,
      <<"1">>,
      <<"S", "t", "a", "t", "u", "s", ":", "c", "h", "i", "p">>,
      <<"s", "t", "a", "t", "u", "s">>,
      <<"e", "r", "r", "o", "r">>,
      <<"a", "c", "t", "i", "v", "e">>>>),
     JoinTokens(<<<<"2", "6", ".", "3", "3", "2", "8", "4", "9">>,
      <<"C", "A", "N", "F", "D">>,
      <<"1">>,
      <<"R", "x">>,
      <<"1", "2", "3">>,
      <<"0">>,
      <<"0">>>>),
     <<>>}

AsciiLines == RemoteLines \cup ClassicalLines \cup FdLines \cup OtherLines

AsciiBases == {"Hex", "Dec"}

\* a line and a base are handed to parse_ascii_line
InitAscii ==
    /\ op = "line"
    /\ line \in AsciiLines
    /\ written = <<>>
    /\ origin = NoFrame
    /\ input = <<>>
    /\ consumed = <<>>
    /\ yielded = <<>>
    /\ received = <<>>
    /\ ended = FALSE
    /\ format \in {[format |-> "VectorAscii", ascii_base |-> b] : b \in AsciiBases}
    /\ frame = NoFrame
    /\ outcome = "Ok"
    /\ BuilderIdle
    /\ WriterIdle
    /\ message = NoMessage
    /\ message_id = 0
    /\ pairs = <<>>
    /\ decoded = <<>>
    /\ signal = NoSignal
    /\ layout = from_spec(NoSignal)
    /\ data = ZeroData
    /\ before = ZeroData
    /\ raw = {}
    /\ result = {}
    /\ other = NoSignal
    /\ physical = F64FromInt(0)

\* parse_ascii_line(line, base)
ParseAsciiLine ==
    /\ op = "line"
    /\ Parsed(parse_ascii_line(line, format.ascii_base))
    /\ op' = "parse_ascii"
    /\ UNCHANGED <<line, written, origin, readerVars>>
    /\ UNCHANGED <<codecVars, writerVars>>

NextAscii == ParseAsciiLine

SpecAscii == InitAscii /\ [][NextAscii]_vars

----------------------------------------------------------------------------
(* Claims about the frames of the parsers *)

\* C16: every frame a line parser returns has a length of at most 64 and
\* zero bytes from its length on, whatever the line.
C16_ParserFrameInvariant ==
    (op \in {"parse", "write_parse", "parse_ascii"} /\ outcome = "Ok") =>
        /\ frame.len <= DEFAULT_FRAME_PAYLOAD_LEN
        /\ \A i \in 0 .. (DEFAULT_FRAME_PAYLOAD_LEN - 1) :
              i >= frame.len => frame.data[i] = {}

\* C17: every frame a line parser returns that is not FD has a length of at
\* most 8.
C17_ClassicalAtMostEight ==
    (op \in {"parse", "write_parse", "parse_ascii"} /\ outcome = "Ok") =>
        (~frame.is_fd => frame.len <= 8)

----------------------------------------------------------------------------
(* CanLogParser: construction and next *)

\* the most lines a log has, after the header if it has one
MaxLines == 3

\* the lines of candump logs: a classical frame, an FD frame, a blank line,
\* a line that is no candump line, a frame line without its #
CandumpLogLines ==
    {<<"(", "1", ".", "0", "0", "0", "0", "0", "0", ")", " ", "v", "c", "a", "n", "0", " ", "1", "A", "0", "#", "0", "1", "0", "2", "\n">>,
     <<"(", "2", ".", "0", "0", "0", "0", "0", "0", ")", " ", "v", "c", "a", "n", "0", " ", "1", "2", "3", "#", "#", "0", "1", "1", "2", "2", "\n">>,
     <<"\n">>,
     <<"g", "a", "r", "b", "a", "g", "e", "\n">>,
     <<"(", "3", ".", "0", "0", "0", "0", "0", "0", ")", " ", "v", "c", "a", "n", "0", " ", "1", "A", "0", "\n">>}

\* the body lines of Vector ASCII logs: a data frame, a remote frame, an FD
\* frame, an event, a blank line
AsciiLogLines ==
    {<<" ", "1", ".", "6", "0", "1", "1", "5", "7", " ", "1", " ", "1", "0", "0", " ", "R", "x", " ", "d", " ", "2", " ", "0", "1", " ", "0", "8", "\n">>,
     <<" ", "2", ".", "0", "0", "0", "0", "0", "0", " ", "1", " ", "1", "0", "0", " ", "T", "x", " ", "r", "\n">>,
     <<" ", "3", ".", "3", "3", "2", "8", "4", "9", " ", "C", "A", "N", "F", "D", " ", "1", " ", "R", "x", " ", "1", "2", "3", " ", "0", " ", "0", " ", "1", " ", "1", " ", "1", "1", "\n">>,
     <<" ", "4", ".", "0", "0", "0", "0", "0", "0", " ", "1", " ", "E", "r", "r", "o", "r", "F", "r", "a", "m", "e", "\n">>,
     <<"\n">>}

LogsOf(lines) == UNION {[1 .. n -> lines] : n \in 0 .. MaxLines}

\* the header lines as read_line returns them
LogHeader(base_name) ==
    [i \in 1 .. 2 |-> HeaderLines(base_name)[i] \o <<"\n">>]

LogBaseNames == {<<"h", "e", "x">>, <<"d", "e", "c">>, <<"o", "c", "t">>}

Logs ==
    LogsOf(CandumpLogLines)
    \cup {LogHeader(b) \o body : b \in LogBaseNames, body \in LogsOf(AsciiLogLines)}

Extensions == {"log", "asc", "txt"}

\* the parsers from_bytes and from_file construct for a log
Constructed(lines) ==
    {from_bytes(lines)}
    \cup {from_file(x, lines).parser : x \in {y \in Extensions : from_file(y, lines).ok}}

\* a CanLogParser has been constructed over a log; nothing is read yet
InitReader ==
    /\ op = "new"
    /\ input \in Logs
    /\ format \in Constructed(input)
    /\ consumed = <<>>
    /\ yielded = <<>>
    /\ received = <<>>
    /\ ended = FALSE
    /\ line = <<>>
    /\ written = <<>>
    /\ origin = NoFrame
    /\ frame = NoFrame
    /\ outcome = "Ok"
    /\ BuilderIdle
    /\ WriterIdle
    /\ message = NoMessage
    /\ message_id = 0
    /\ pairs = <<>>
    /\ decoded = <<>>
    /\ signal = NoSignal
    /\ layout = from_spec(NoSignal)
    /\ data = ZeroData
    /\ before = ZeroData
    /\ raw = {}
    /\ result = {}
    /\ other = NoSignal
    /\ physical = F64FromInt(0)

\* next returns Some(f); a loop over the reader that has not seen None gets f
ReturnSome(f) ==
    /\ op' = "some"
    /\ frame' = f
    /\ yielded' = Append(yielded, f)
    /\ received' = IF ended THEN received ELSE Append(received, f)
    /\ UNCHANGED ended

\* next returns None
ReturnNone ==
    /\ op' = "none"
    /\ frame' = NoFrame
    /\ ended' = TRUE
    /\ UNCHANGED <<yielded, received>>

\* next panics: the call is over and the line is read; a caller that
\* catches the unwinding holds the parser as it is
Panicked ==
    /\ op' = "panic"
    /\ frame' = NoFrame
    /\ UNCHANGED <<yielded, received, ended>>

\* read_line(&mut self.buf) returns Ok(0): nothing is left
ReadNothing ==
    /\ input = <<>>
    /\ line' = <<>>
    /\ UNCHANGED <<input, consumed>>

\* read_line(&mut self.buf) returns Ok(n), n > 0
ReadLine ==
    /\ input # <<>>
    /\ line' = Head(input)
    /\ input' = Tail(input)
    /\ consumed' = Append(consumed, Head(input))

\* next, CanLogFormat::Candump
NextCandumpMode ==
    /\ op # "loop"
    /\ format.format = "Candump"
    /\ \/ ReadNothing /\ ReturnNone
       \/ /\ ReadLine
          /\ LET r == parse_candump_line(Head(input))
             IN  CASE r.outcome = "Ok" -> ReturnSome(r.frame)
                   [] r.outcome = "ParseError" -> ReturnNone
                   [] r.outcome = "panic" -> Panicked
    /\ UNCHANGED <<written, origin, format, outcome>>
    /\ UNCHANGED <<codecVars, writerVars>>

\* next, CanLogFormat::VectorAscii: the call clears buf and enters the loop
NextVectorAscii ==
    /\ op # "loop"
    /\ format.format = "VectorAscii"
    /\ op' = "loop"
    /\ line' = <<>>
    /\ UNCHANGED <<input, consumed, yielded, received, ended, frame>>
    /\ UNCHANGED <<written, origin, format, outcome>>
    /\ UNCHANGED <<codecVars, writerVars>>

\* an iteration of the loop that returns None for a line that does not
\* parse
LoopVectorAsciiStops ==
    /\ op = "loop"
    /\ \/ ReadNothing /\ ReturnNone
       \/ /\ ReadLine
          /\ LET r == parse_ascii_line(Head(input), format.ascii_base)
             IN  CASE r.outcome = "Ok" -> ReturnSome(r.frame)
                   [] r.outcome = "ParseError" -> ReturnNone
                   [] r.outcome = "panic" -> Panicked
    /\ UNCHANGED <<written, origin, format, outcome>>
    /\ UNCHANGED <<codecVars, writerVars>>

\* an iteration of the loop that leaves a line that does not parse in the
\* reader
LoopVectorAsciiKeepsLine ==
    /\ op = "loop"
    /\ \/ ReadNothing /\ ReturnNone
       \/ /\ input # <<>>
          /\ LET r == parse_ascii_line(Head(input), format.ascii_base)
             IN  CASE r.outcome = "Ok" -> ReadLine /\ ReturnSome(r.frame)
                   [] r.outcome = "ParseError" ->
                        /\ line' = Head(input)
                        /\ UNCHANGED <<op, input, consumed, frame, yielded,
                                       received, ended>>
                   [] r.outcome = "panic" -> ReadLine /\ Panicked
    /\ UNCHANGED <<written, origin, format, outcome>>
    /\ UNCHANGED <<codecVars, writerVars>>

\* an iteration of the loop of next, CanLogFormat::VectorAscii
LoopVectorAscii ==
    /\ op = "loop"
    /\ \/ ReadNothing /\ ReturnNone
       \/ /\ ReadLine
          /\ LET r == parse_ascii_line(Head(input), format.ascii_base)
             IN  CASE r.outcome = "Ok" -> ReturnSome(r.frame)
                   [] r.outcome = "ParseError" ->
                        UNCHANGED <<op, frame, yielded, received, ended>>
                   [] r.outcome = "panic" -> Panicked
    /\ UNCHANGED <<written, origin, format, outcome>>
    /\ UNCHANGED <<codecVars, writerVars>>

NextReader == NextCandumpMode \/ NextVectorAscii \/ LoopVectorAscii

SpecReader == InitReader /\ [][NextReader]_vars

\* NextCandumpMode changes the state unless next has returned None with no
\* line left and buf is clear
CandumpModeDone == input = <<>> /\ op = "none" /\ line = <<>>

\* weak fairness of NextCandumpMode, with ENABLED <<NextCandumpMode>>_vars
\* written as the state predicate it is equal to: the caller goes on
\* calling next
FairNextCandumpMode ==
    \/ []<>(format.format # "Candump" \/ CandumpModeDone)
    \/ []<><<NextCandumpMode>>_vars

\* weak fairness of LoopVectorAscii, with ENABLED <<LoopVectorAscii>>_vars
\* written as the state predicate it is equal to, op = "loop": a call that
\* has begun goes on
FairLoopVectorAscii ==
    \/ []<>(op # "loop")
    \/ []<><<LoopVectorAscii>>_vars

\* the caller goes on calling next, and a call that has begun goes on
SpecReaderLive ==
    /\ SpecReader
    /\ WF_vars(NextVectorAscii)
    /\ FairNextCandumpMode
    /\ FairLoopVectorAscii

----------------------------------------------------------------------------
(* Claims about the log reader *)

\* the whole log of the reader
Log == consumed \o input

\* the frames of the candump lines that parse, in the order of the lines
RECURSIVE CandumpFrames(_)
CandumpFrames(lines) ==
    IF lines = <<>> THEN <<>>
    ELSE LET r == parse_candump_line(Head(lines))
         IN  (IF r.outcome = "Ok" THEN <<r.frame>> ELSE <<>>)
             \o CandumpFrames(Tail(lines))

\* the frames of the CAN frame lines, those that parse_ascii_line parses in
\* the base of the reader, in the order of the lines
RECURSIVE AsciiFrames(_)
AsciiFrames(lines) ==
    IF lines = <<>> THEN <<>>
    ELSE LET r == parse_ascii_line(Head(lines), format.ascii_base)
         IN  (IF r.outcome = "Ok" THEN <<r.frame>> ELSE <<>>)
             \o AsciiFrames(Tail(lines))

\* C18: in candump mode next returns None only when no line is left, and a
\* loop over the reader that ends at the first None has received the frame
\* of every line of the log that parses, in the order of the log.
C18_CandumpSkipsBadLines ==
    format.format = "Candump" =>
        /\ op = "none" => input = <<>>
        /\ ended => received = CandumpFrames(Log)

\* C19: in Vector ASCII mode a line that is no CAN frame line yields no
\* frame and does not end the sequence: the frames returned so far are the
\* frames of the CAN frame lines read so far, in their order; None is
\* returned only when no line is left, and a loop over the reader that ends
\* at the first None has received the frames of the CAN frame lines of the
\* log, one a line, in the order of the log.
C19_AsciiSkipsOtherLines ==
    format.format = "VectorAscii" =>
        /\ yielded = AsciiFrames(consumed)
        /\ op = "none" => input = <<>>
        /\ ended => received = AsciiFrames(Log)

\* a log with an event between two CAN frame lines was read to its end
C19_Witness ==
    /\ format.format = "VectorAscii"
    /\ ended
    /\ op = "none"
    /\ Len(consumed) = 5
    /\ Len(received) = 2
    /\ received[1] # received[2]
    /\ parse_ascii_line(consumed[3], format.ascii_base).outcome = "Ok"
    /\ parse_ascii_line(consumed[4], format.ascii_base).outcome = "ParseError"

\* C20: the reader is a finite sequence: the frames returned are no more
\* than the lines read; a call of next that has begun returns (an iteration
\* of the Vector ASCII loop that goes on has read a line); the calls reach
\* one that returns None with no line left; and from there on every call
\* returns None.
C20_FiniteSequence ==
    /\ [](Len(yielded) <= Len(consumed))
    /\ [][(op = "loop" /\ op' = "loop") => Len(input') < Len(input)]_vars
    /\ (op = "loop") ~> (op # "loop")
    /\ <>(input = <<>> /\ op = "none")
    /\ [][input = <<>> => op' \in {"none", "loop"}]_vars

\* a Vector ASCII log of header and body was read to its end, with fewer
\* frames than lines, and next was called again
C20_Witness ==
    /\ format.format = "VectorAscii"
    /\ input = <<>>
    /\ ended
    /\ op = "loop"
    /\ Len(consumed) = 2 + MaxLines
    /\ Len(yielded) > 0
    /\ Len(yielded) < MaxLines

----------------------------------------------------------------------------
(* Claims about the base of a Vector ASCII reader *)

\* the frames of the lines that parse_ascii_line parses in a base, in the
\* order of the lines
RECURSIVE AsciiFramesIn(_, _)
AsciiFramesIn(lines, base) ==
    IF lines = <<>> THEN <<>>
    ELSE LET r == parse_ascii_line(Head(lines), base)
         IN  (IF r.outcome = "Ok" THEN <<r.frame>> ELSE <<>>)
             \o AsciiFramesIn(Tail(lines), base)

\* the base the header of the log names
HeaderBase == get_ascii_base(Log).base

\* C21: a Vector ASCII reader, constructed from a path or from bytes, holds
\* the base the header of its log names, and the frames it returns are
\* those of the lines read so far, parsed in that base.
C21_HeaderBase ==
    format.format = "VectorAscii" =>
        /\ format.ascii_base = HeaderBase
        /\ yielded = AsciiFramesIn(consumed, HeaderBase)

----------------------------------------------------------------------------
(* Claims about parse_ascii_line *)

\* decimal digits, or decimal digits with a point among them
IsDecimalNumber(text) ==
    /\ text # <<>>
    /\ \A i \in 1 .. Len(text) : DigitVal(text[i]) \in 0 .. 9 \/ text[i] = "."
    /\ Cardinality({i \in 1 .. Len(text) : text[i] = "."}) <= 1
    /\ \E i \in 1 .. Len(text) : text[i] # "."

\* a number written in the base: digits of the base, not more than the
\* model's integers hold, and a value of at most max
IsNumberIn(text, base, max) ==
    /\ text # <<>>
    /\ Len(text) <= 8
    /\ \A i \in 1 .. Len(text) :
          DigitVal(text[i]) \in 0 .. (IF base = "Hex" THEN 15 ELSE 9)
    /\ DigitsValue(text, IF base = "Hex" THEN 16 ELSE 10) <= max

NumberIn(text, base) == DigitsValue(text, IF base = "Hex" THEN 16 ELSE 10)

\* the id token without the x of an extended id
IdDigits(token) ==
    IF token # <<>> /\ token[Len(token)] = "x"
    THEN SubSeq(token, 1, Len(token) - 1)
    ELSE token

AsciiTokens == split_whitespace(line)

\* tokens [first .. first + count - 1] are bytes written in the base
DataTokensAt(tokens, first, count, base) ==
    /\ Len(tokens) >= first + count - 1
    /\ \A i \in first .. (first + count - 1) : IsNumberIn(tokens[i], base, U8Max)

\* the payload that holds the bytes of tokens [first .. first + count - 1]
\* and zeros after them
PayloadOfTokens(tokens, first, count, base) ==
    [b \in 0 .. (DEFAULT_FRAME_PAYLOAD_LEN - 1) |->
        IF b < count THEN BitsOf(NumberIn(tokens[first + b], base)) ELSE {}]

\* a classical body line: timestamp channel id direction kind, and for
\* kind d a DLC within the payload and at least DLC data tokens
ClassicalBodyLine(tokens, base) ==
    /\ Len(tokens) >= 5
    /\ tokens[2] # <<"C", "A", "N", "F", "D">>
    /\ IsDecimalNumber(tokens[1])
    /\ IsNumberIn(IdDigits(tokens[3]), base, IdMax)
    /\ tokens[4] \in {<<"R", "x">>, <<"T", "x">>}
    /\ \/ tokens[5] = <<"r">>
       \/ /\ tokens[5] = <<"d">>
          /\ Len(tokens) >= 6
          /\ IsNumberIn(tokens[6], "Dec", DEFAULT_FRAME_PAYLOAD_LEN)
          /\ DataTokensAt(tokens, 7, NumberIn(tokens[6], "Dec"), base)

\* C22: parse_ascii_line of a classical body line returns a frame that is
\* not FD, with the timestamp and the channel of the line, the id read in
\* the base without its x, received exactly for Rx; of length 0 and zero
\* payload for kind r; for kind d of the length the DLC token writes in
\* decimal and with the next DLC tokens, read in the base, as payload,
\* whatever follows them.
C22_ClassicalAsciiFields ==
    (op = "parse_ascii" /\ ClassicalBodyLine(AsciiTokens, format.ascii_base)) =>
        LET tokens == AsciiTokens
            base == format.ascii_base
            dlc == IF tokens[5] = <<"r">> THEN 0 ELSE NumberIn(tokens[6], "Dec")
        IN  /\ outcome = "Ok"
            /\ ~frame.is_fd
            /\ frame.timestamp = parse_f64(tokens[1]).value
            /\ frame.channel = tokens[2]
            /\ frame.id = NumberIn(IdDigits(tokens[3]), base)
            /\ frame.is_rx = (tokens[4] = <<"R", "x">>)
            /\ frame.len = dlc
            /\ frame.data = PayloadOfTokens(tokens, 7, dlc, base)

\* a data line of 9 bytes with an extended id and a trailer was parsed in
\* base 16
C22_Witness ==
    /\ op = "parse_ascii"
    /\ ClassicalBodyLine(AsciiTokens, format.ascii_base)
    /\ format.ascii_base = "Hex"
    /\ AsciiTokens[5] = <<"d">>
    /\ AsciiTokens[3][Len(AsciiTokens[3])] = "x"
    /\ frame.len = 9
    /\ Len(AsciiTokens) > 15
    /\ frame.data[8] # {}

\* a CANFD body line: timestamp CANFD channel direction id, three more
\* tokens, a data length within the payload and at least that many data
\* tokens
FdBodyLine(tokens, base) ==
    /\ Len(tokens) >= 9
    /\ tokens[2] = <<"C", "A", "N", "F", "D">>
    /\ IsDecimalNumber(tokens[1])
    /\ IsNumberIn(IdDigits(tokens[5]), base, IdMax)
    /\ tokens[4] \in {<<"R", "x">>, <<"T", "x">>}
    /\ IsNumberIn(tokens[9], "Dec", DEFAULT_FRAME_PAYLOAD_LEN)
    /\ DataTokensAt(tokens, 10, NumberIn(tokens[9], "Dec"), base)

\* a CANFD line of five to eight tokens
ShortFdLine(tokens) ==
    /\ Len(tokens) \in 5 .. 8
    /\ tokens[2] = <<"C", "A", "N", "F", "D">>

\* C23: parse_ascii_line of a CANFD body line returns an FD frame with the
\* channel of token 2, the direction of token 3, the id of token 4 without
\* its x, the length that token 8 writes in decimal and the tokens from
\* index 9 on, read in the base, as payload, whatever follows them; a
\* CANFD line with no token at index 8 is an error.
C23_FdAsciiFields ==
    op = "parse_ascii" =>
        LET tokens == AsciiTokens
            base == format.ascii_base
        IN  /\ ShortFdLine(tokens) => outcome = "ParseError"
            /\ FdBodyLine(tokens, base) =>
                  LET len == NumberIn(tokens[9], "Dec")
                  IN  /\ outcome = "Ok"
                      /\ frame.is_fd
                      /\ frame.timestamp = parse_f64(tokens[1]).value
                      /\ frame.channel = tokens[3]
                      /\ frame.is_rx = (tokens[4] = <<"R", "x">>)
                      /\ frame.id = NumberIn(IdDigits(tokens[5]), base)
                      /\ frame.len = len
                      /\ frame.data = PayloadOfTokens(tokens, 10, len, base)

\* a CANFD line of 64 bytes with tokens after them was parsed in base 10
C23_Witness ==
    /\ op = "parse_ascii"
    /\ FdBodyLine(AsciiTokens, format.ascii_base)
    /\ format.ascii_base = "Dec"
    /\ frame.len = 64
    /\ Len(AsciiTokens) > 73
    /\ frame.data[63] # {}
    /\ frame.id = 100

\* a CANFD line that ends before the data length was refused
C23_WitnessShort ==
    /\ op = "parse_ascii"
    /\ ShortFdLine(AsciiTokens)
    /\ outcome = "ParseError"

----------------------------------------------------------------------------
(* Claims about the outcomes of the line parsers *)

\* C24: parse_candump_line and parse_ascii_line return a frame or an error
\* for every line and never panic.
C24_ParsersTotal ==
    op \in {"parse", "write_parse", "parse_ascii"} =>
        outcome \in {"Ok", "ParseError"}

----------------------------------------------------------------------------
(* CandumpWriter: write and flush *)

\* the most frames a caller writes
MaxWrites == 3

\* the most frames of a run that fills the buffer
MaxLongRun == 56

\* a frame with the longest line
LongFrame ==
    [timestamp |-> parse_f64(<<"0", ".", "0", "0", "0", "0", "0", "0">>).value,
     channel |-> <<"v", "c", "a", "n", "0">>, id |-> 416, is_rx |-> TRUE,
     is_fd |-> TRUE, len |-> DEFAULT_FRAME_PAYLOAD_LEN,
     data |-> PayloadOfLen(DEFAULT_FRAME_PAYLOAD_LEN)]

\* the frames handed to the writer: classical and FD, short and long, and
\* one whose length is beyond the payload
WriterFrames ==
    {f \in SampleFrames :
        /\ f.timestamp = LongFrame.timestamp
        /\ f.channel = <<"v", "c", "a", "n", "0">>
        /\ f.is_rx
        /\ f.data = PayloadOfLen(f.len)
        /\ \/ f.id = 416 /\ <<f.is_fd, f.len>> \in {<<FALSE, 8>>, <<TRUE, 12>>}
           \/ f.id = 2 /\ <<f.is_fd, f.len>> = <<FALSE, 0>>
           \/ /\ f.id = 523453525
              /\ <<f.is_fd, f.len>> = <<TRUE, DEFAULT_FRAME_PAYLOAD_LEN + 1>>}
    \cup {LongFrame}

\* CandumpWriter::from_writer has returned a writer over an empty sink
InitWriter ==
    /\ op = "from_writer"
    /\ writer = [buf |-> <<>>, inner |-> <<>>]
    /\ submitted = <<>>
    /\ line = <<>>
    /\ written = <<>>
    /\ origin = NoFrame
    /\ ReaderIdle
    /\ frame = NoFrame
    /\ outcome = "Ok"
    /\ BuilderIdle
    /\ message = NoMessage
    /\ message_id = 0
    /\ pairs = <<>>
    /\ decoded = <<>>
    /\ signal = NoSignal
    /\ layout = from_spec(NoSignal)
    /\ data = ZeroData
    /\ before = ZeroData
    /\ raw = {}
    /\ result = {}
    /\ other = NoSignal
    /\ physical = F64FromInt(0)

\* the caller writes one more frame: any frame while few are written, and
\* the long frame again while nothing else has been written
MayWrite(f) ==
    \/ Len(submitted) < MaxWrites
    \/ /\ Len(submitted) < MaxLongRun
       /\ f = LongFrame
       /\ \A i \in 1 .. Len(submitted) : submitted[i] = LongFrame

\* writer.write(&f)
Write ==
    /\ op \in {"from_writer", "write", "flush"}
    /\ \E f \in WriterFrames :
          /\ MayWrite(f)
          /\ LET r == write(writer, f)
             IN  /\ origin' = f
                 /\ outcome' = r.outcome
                 /\ IF r.outcome = "Ok"
                    THEN /\ op' = "write"
                         /\ writer' = r.writer
                         /\ submitted' = Append(submitted, f)
                    ELSE /\ op' = "panic"
                         /\ UNCHANGED <<writer, submitted>>
    /\ UNCHANGED <<line, written, frame, readerVars>>
    /\ UNCHANGED codecVars

\* writer.flush()
Flush ==
    /\ op \in {"from_writer", "write", "flush"}
    /\ op' = "flush"
    /\ writer' = flush(writer)
    /\ outcome' = "Ok"
    /\ UNCHANGED <<line, written, frame, origin, submitted, readerVars>>
    /\ UNCHANGED codecVars

NextWriter == Write \/ Flush

SpecWriter == InitWriter /\ [][NextWriter]_vars

----------------------------------------------------------------------------
(* Claims about CandumpWriter *)

\* the lines of the frames, a newline after each, in the order of the frames
RECURSIVE LinesOf(_)
LinesOf(frames) ==
    IF frames = <<>> THEN <<>>
    ELSE frame_to_candump_line(Head(frames)).text \o <<"\n">>
         \o LinesOf(Tail(frames))

IsPrefix(a, b) == Len(a) <= Len(b) /\ a = SubSeq(b, 1, Len(a))

\* C25: when flush has returned, the sink holds the lines of the frames
\* written so far, each followed by one newline, in the order they were
\* written; at every other time the sink holds a prefix of that text.
C25_WriterOrder ==
    op \in {"from_writer", "write", "flush"} =>
        /\ op = "flush" => writer.inner = LinesOf(submitted)
        /\ IsPrefix(writer.inner, LinesOf(submitted))

\* three frames, not all the same, were written and flushed
C25_Witness ==
    /\ op = "flush"
    /\ Len(submitted) = 3
    /\ submitted[1] # submitted[2]
    /\ submitted[3] = submitted[1]
    /\ writer.inner = LinesOf(submitted)
    /\ writer.buf = <<>>

\* the buffer was full: part of the text is in the sink and the rest in the
\* buffer
C25_WitnessSpill ==
    /\ op = "write"
    /\ Len(LinesOf(submitted)) > BufCapacity
    /\ writer.inner # <<>>
    /\ writer.buf # <<>>
    /\ Len(writer.inner) < Len(LinesOf(submitted))

----------------------------------------------------------------------------
(* Claims about the two byte orders *)

\* the signal is inside one byte: a BigEndian signal begins at its highest
\* bit, a LittleEndian signal at its lowest
InOneByte(sig) ==
    /\ sig.signal_size <= ByteBits
    /\ IF sig.byte_order = "BigEndian"
       THEN (sig.start_bit % ByteBits) >= sig.signal_size - 1
       ELSE (sig.start_bit % ByteBits) + sig.signal_size <= ByteBits

\* the signal of the other byte order over the same bits of the byte
Twin(sig) ==
    IF sig.byte_order = "BigEndian"
    THEN [sig EXCEPT !.byte_order = "LittleEndian",
                     !.start_bit = @ - sig.signal_size + 1]
    ELSE [sig EXCEPT !.byte_order = "BigEndian",
                     !.start_bit = @ + sig.signal_size - 1]

\* C26: a signal of at most 8 bits inside one byte and the signal of the
\* other byte order over the same bits have the same spans, extract the
\* same value from every payload, and pack writes the same payload.
C26_ByteOrderSymmetry ==
    InOneByte(signal) =>
        LET twin == from_spec(Twin(signal))
        IN  /\ twin.segments = layout.segments
            /\ extract(twin, data) = extract(layout, data)
            /\ op \in {"pack", "repack", "pack_other"} =>
                  pack(twin, before, raw) = pack(layout, before, raw)
            /\ op \in {"pack", "repack"} => pack(twin, before, raw) = data

\* a BigEndian signal of 5 bits in the middle of byte 2 was packed into a
\* payload that is not zero and holds a value that is not zero
C26_Witness ==
    /\ op = "pack"
    /\ signal.byte_order = "BigEndian"
    /\ signal.signal_size = 5
    /\ signal.start_bit = 22
    /\ InOneByte(signal)
    /\ before # ZeroData
    /\ extract(from_spec(Twin(signal)), data) # {}

----------------------------------------------------------------------------
(* The three decoders: decode_signal, decode_signal_by_bytes and           *)
(* SignalLayout::decode                                                    *)

\* every valid signal, Signed and Unsigned, with the identity scaling
DecoderSignals ==
    {Signal(sb, w, bo, vt, IdentityScaling) :
        sb \in U64, w \in 1 .. WordBits, bo \in ByteOrders, vt \in ValueTypes}

DecoderBuffers == {BufPattern(0), AllOnesData}

\* a message of the signal and of a second signal declared after it
DecoderMessage(sig) ==
    [message_size |-> 8,
     signals |-> <<Named("A", sig),
                   Named("B", Signal(3, 6, "BigEndian", "Signed", Scaling(2, 1)))>>]

InitDecoders ==
    /\ op = "frame"
    /\ signal \in DecoderSignals
    /\ layout = from_spec(signal)
    /\ data \in DecoderBuffers
    /\ frame = [CanFrameDefault EXCEPT !.data = data]
    /\ message = DecoderMessage(signal)
    /\ before = data
    /\ raw = {}
    /\ result = {}
    /\ other = NoSignal
    /\ physical = F64FromInt(0)
    /\ message_id = 0
    /\ pairs = <<>>
    /\ decoded = <<>>
    /\ outcome = "Ok"
    /\ BuilderIdle
    /\ LogIdle

\* decode_signal(&frame, &signal)
DecodeSignal ==
    /\ op = "frame"
    /\ result' = decode_signal_raw(frame.data, signal)
    /\ physical' = decode_signal(frame, signal)
    /\ op' = "decode_signal"
    /\ UNCHANGED <<signal, layout, data, before, raw, other, messageVars,
                   builderVars, logVars>>

\* decode_signal_by_bytes(&frame, &signal)
DecodeSignalByBytes ==
    /\ op = "frame"
    /\ result' = decode_signal_by_bytes_raw(frame.data, signal)
    /\ physical' = decode_signal_by_bytes(frame, signal)
    /\ op' = "decode_signal_by_bytes"
    /\ UNCHANGED <<signal, layout, data, before, raw, other, messageVars,
                   builderVars, logVars>>

\* layout.decode(&frame, &signal)
LayoutDecode ==
    /\ op = "frame"
    /\ result' = extract(layout, frame.data)
    /\ physical' = decode(layout, frame.data, signal)
    /\ op' = "decode"
    /\ UNCHANGED <<signal, layout, data, before, raw, other, messageVars,
                   builderVars, logVars>>

\* decode_message(&frame, &message)
DecodeMessageOfSignal ==
    /\ op = "frame"
    /\ decoded' = decode_message(frame, message).values
    /\ op' = "decode_message"
    /\ UNCHANGED <<message, message_id, pairs, frame, outcome>>
    /\ UNCHANGED <<layoutVars, builderVars, logVars>>

NextDecoders ==
    DecodeSignal \/ DecodeSignalByBytes \/ LayoutDecode \/ DecodeMessageOfSignal

SpecDecoders == InitDecoders /\ [][NextDecoders]_vars

----------------------------------------------------------------------------
(* Claims about the three decoders *)

\* C27: for every valid signal and every payload, decode_signal,
\* decode_signal_by_bytes and SignalLayout::decode gather the same raw value
\* and return the same value, and decode_message returns for each signal of
\* the message, in declaration order, the value of the layout of the signal.
C27_DecodersAgree ==
    /\ op \in {"decode_signal", "decode_signal_by_bytes", "decode"} =>
          /\ result = decode_signal_raw(frame.data, signal)
          /\ result = decode_signal_by_bytes_raw(frame.data, signal)
          /\ result = extract(from_spec(signal), frame.data)
          /\ physical = decode_signal(frame, signal)
          /\ physical = decode_signal_by_bytes(frame, signal)
          /\ physical = decode(from_spec(signal), frame.data, signal)
    /\ op = "decode_message" =>
          /\ Len(decoded) = Len(message.signals)
          /\ \A i \in 1 .. Len(decoded) :
                decoded[i] = decode(from_spec(message.signals[i]), frame.data,
                                    message.signals[i])

\* a Signed LittleEndian signal over several bytes, not aligned to a byte,
\* was decoded byte by byte to a negative value
C27_Witness ==
    /\ op = "decode_signal_by_bytes"
    /\ signal.byte_order = "LittleEndian"
    /\ signal.value_type = "Signed"
    /\ signal.start_bit % 8 = 5
    /\ signal.signal_size = 21
    /\ data = BufPattern(0)
    /\ physical.neg
    /\ result # {}

----------------------------------------------------------------------------
(* Claims about the format from_bytes detects *)

\* the second token of the second line is hex or dec
BaseNamed(lines) ==
    /\ Len(lines) >= 2
    /\ Len(split_whitespace(lines[2])) >= 2
    /\ split_whitespace(lines[2])[2] \in {<<"h", "e", "x">>, <<"d", "e", "c">>}

C28_WitnessAscii ==
    /\ format = from_bytes(Log)
    /\ format.format = "VectorAscii"
    /\ format.ascii_base = "Dec"
    /\ Len(consumed) = 3
    /\ Len(yielded) = 1

\* a buffer with a header that names another base was read as candump
C28_WitnessOtherBase ==
    /\ format.format = "Candump"
    /\ Len(Log) >= 2
    /\ Len(split_whitespace(Log[2])) >= 2
    /\ split_whitespace(Log[2])[1] = <<"b", "a", "s", "e">>
    /\ op = "none"

----------------------------------------------------------------------------
(* Claims about packing a signal more than once *)

\* raw values packed after the first: none, all ones, two mixed patterns
SecondRaws == {{}, U64, RawPattern(0), RawPattern(2)}

\* C29: a value packed over another value of the same signal leaves the
\* payload that packing it alone gives, pack(pack(D, r1), r2) = pack(D, r2),
\* and packing a value twice is packing it once.
C29_LastWriteWins ==
    op = "pack" =>
        /\ \A r2 \in SecondRaws :
              pack(layout, data, r2) = pack(layout, before, r2)
        /\ pack(layout, data, raw) = data

\* a value was packed into a payload that is not zero, by a layout of three
\* spans or more, and a second value changes the payload again
C29_Witness ==
    /\ op = "pack"
    /\ before # ZeroData
    /\ Len(layout.segments) >= 3
    /\ data # before
    /\ \E r2 \in SecondRaws :
          /\ pack(layout, data, r2) # data
          /\ pack(layout, data, r2) # before

\* the pairs that no later pair of the same name follows
RECURSIVE LastOfEach(_)
LastOfEach(ps) ==
    IF ps = <<>> THEN <<>>
    ELSE (IF \E j \in 2 .. Len(ps) : ps[j].name = ps[1].name
          THEN <<>> ELSE <<ps[1]>>)
         \o LastOfEach(Tail(ps))

\* encode_message of pairs that name a signal more than once returns the
\* frame of the last pair of each name
EncodeLastOfEach ==
    (op = "encode_message" /\ outcome = "Ok") =>
        frame = encode_message(message, LastOfEach(pairs), message_id).frame

\* a signal was named twice with two values
EncodeLastOfEachWitness ==
    /\ op = "encode_message"
    /\ outcome = "Ok"
    /\ Len(pairs) = 2
    /\ pairs[1].name = pairs[2].name
    /\ pairs[1].value # pairs[2].value
    /\ frame.data # ZeroData

----------------------------------------------------------------------------
(* Claims about the memory safety of the layout engine *)

\* the highest byte a span of a valid signal may name: the byte of start
\* bit 63 and the 8 bytes after it
MaxSpanByte == ((WordBits - 1) \div ByteBits) + (WordBits \div ByteBits)

\* C30: every span of the layout of a valid signal names a byte of at most
\* 15, inside the 64 bytes of the payload, and ends at or below bit 64 of
\* the value, so extract and pack index inside the payload and shift a
\* 64-bit value by less than 64.
C30_SpansInBounds ==
    \A i \in 1 .. Len(layout.segments) :
        LET span == layout.segments[i]
        IN  /\ span.byte_index <= MaxSpanByte
            /\ span.byte_index < DEFAULT_FRAME_PAYLOAD_LEN
            /\ span.value_shift + span.num_bits <= WordBits
            /\ span.value_shift < WordBits
            /\ span.bit_offset < ByteBits
            /\ span.num_bits <= ByteBits

\* a signal of 64 bits that begins at bit 63 was packed: its last span is in
\* byte 15, and the byte was written
C30_Witness ==
    /\ op = "pack"
    /\ signal.start_bit = 63
    /\ signal.signal_size = WordBits
    /\ \E i \in 1 .. Len(layout.segments) :
          /\ layout.segments[i].byte_index = MaxSpanByte
          /\ layout.segments[i].value_shift + layout.segments[i].num_bits = WordBits
    /\ data[MaxSpanByte] # before[MaxSpanByte]

====
